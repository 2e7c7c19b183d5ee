-------------------------- MODULE LocalStoreProofs ---------------------------
(***************************************************************************)
(* What is proved of LocalStore for any documents, edits and bounds: when  *)
(* the browser's record of a document is what the tab last held, and that  *)
(* neither the record nor the server's plan loses strokes.                 *)
(***************************************************************************)
EXTENDS LocalStore, SequenceTheorems, WellFoundedInduction, TLAPS

-----------------------------------------------------------------------------
(* Types *)

Kinds == Edits \cup {"none", "queue", "load", "save"}

Follow == [kind : Kinds, id : DocIds \cup {None}, record : Records \cup {None},
           now : BOOLEAN]

Request == [op : {"put", "get", "delete"}, id : DocIds, record : Records \cup {None},
            then : Follow]

(* What a request carries for what follows its answer.                     *)
Sound(q) ==
    /\ q.op = "put" => q.record # None
    /\ q.op = "delete" => q.then.kind = "none" /\ q.record = None
    /\ q.then.kind = "queue" => q.op = "put"
    /\ q.then.kind = "load" => q.op = "get"
    /\ q.then.kind \in Edits \cup {"queue", "save"} => q.then.id \in DocIds
    /\ q.then.kind \in Edits \cup {"queue"} => q.then.record # None
    /\ q.op = "get" /\ q.then.kind \in Edits \cup {"save"} => q.id = q.then.id

Good(s) == s \in Seq(Request) /\ \A i \in 1..Len(s) : Sound(s[i])

Shapes ==
    /\ disk \in [DocIds -> Records \cup {None}]
    /\ Good(requests)
    /\ pending \in [id : DocIds, record : Records] \cup {None}
    /\ open \in DocIds \cup {None} /\ saving \in {open, None}
    /\ plan \in [DocIds -> Records \cup {None}]
    /\ open # None => plan[open] # None
    /\ loading \in [id : DocIds \cup {None}, read : BOOLEAN, record : Records \cup {None}]
    /\ loading.id = None => loading = Idle
    /\ server \in [DocIds -> Records]
    /\ undone \subseteq Stamps /\ clock \in Stamps
    /\ saving # None => loading = Idle

(* One save and one load at most are under way, each of the document it    *)
(* was started for.                                                        *)
Turns(s, l, sv) ==
    /\ \A i \in 1..Len(s) : s[i].then.kind = "save" => s[i].then.id = sv
    /\ \A i, j \in 1..Len(s) : s[i].then.kind = "save" /\ s[j].then.kind = "save" => i = j
    /\ \A i \in 1..Len(s) : s[i].then.kind = "load" => s[i].id = l.id /\ ~l.read
    /\ \A i, j \in 1..Len(s) : s[i].then.kind = "load" /\ s[j].then.kind = "load" => i = j

InTurn == Turns(requests, loading, saving)

-----------------------------------------------------------------------------
(* Operators *)

LEMMA Numbers ==
    /\ MaxStamp \in Nat /\ MaxRequests \in Nat \ {0}
    /\ None \notin DocIds /\ None \notin Records /\ None \notin [id : DocIds, record : Records]
    /\ Migrated \subseteq DocIds
    /\ 0 \in Stamps /\ \A c \in Stamps : c < MaxStamp => c + 1 \in Stamps
    /\ Idle \in [id : DocIds \cup {None}, read : BOOLEAN, record : Records \cup {None}]
    /\ NoThen \in Follow
BY StoreAssumption, NothingAssumption DEF Stamps, Idle, NoThen, Follow, Kinds

LEMMA RecordFacts ==
    /\ Original \in Records /\ MigratedRecord \in Records
    /\ \A r \in Records : Plain(r) \in Records
    /\ \A r, n \in Records, kind \in Edits :
          Merged(kind, r, n) \in Records /\ Merged(kind, r, n).rows = r.rows
<1>1. 0 \in Stamps /\ {0} \in SUBSET Stamps /\ {} \in SUBSET Stamps
  BY Numbers
<1>2. Original \in Records /\ MigratedRecord \in Records
  BY <1>1 DEF Original, MigratedRecord, Records
<1>3. ASSUME NEW r \in Records PROVE Plain(r) \in Records /\ Plain(r).rows = r.rows
  BY <1>1 DEF Plain, Records
<1>4. ASSUME NEW r \in Records, NEW n \in Records, NEW kind \in Edits
      PROVE  Merged(kind, r, n) \in Records /\ Merged(kind, r, n).rows = r.rows
  <2>1. CASE kind = "name"
    <3>1. [r EXCEPT !.name = n.name] \in Records /\ [r EXCEPT !.name = n.name].rows = r.rows
      BY DEF Records
    <3> QED BY <1>3, <2>1, <3>1 DEF Merged
  <2>2. CASE kind = "colors"
    BY <2>2 DEF Merged, Records
  <2>3. CASE kind = "password"
    BY <2>3 DEF Merged, Records
  <2>4. CASE kind = "document"
    BY <2>4 DEF Merged, Records
  <2>5. CASE kind = "count"
    <3>1. [n EXCEPT !.rows = r.rows] \in Records /\ [n EXCEPT !.rows = r.rows].rows = r.rows
      BY DEF Records
    <3> QED BY <1>3, <2>5, <3>1 DEF Merged
  <2> QED BY <2>1, <2>2, <2>3, <2>4, <2>5 DEF Edits, Flushing
<1> QED BY <1>2, <1>3, <1>4

(* A request joins the queue at its end.                                   *)
LEMMA Pushes ==
    ASSUME NEW s \in Seq(Request), NEW q \in Request
    PROVE  /\ Append(s, q) \in Seq(Request)
           /\ Len(s) \in Nat /\ Len(Append(s, q)) = Len(s) + 1
           /\ \A i \in 1..Len(s) : Append(s, q)[i] = s[i] /\ s[i] \in Request
           /\ Append(s, q)[Len(s) + 1] = q
           /\ \A i \in 1..Len(Append(s, q)) : i \in 1..Len(s) \/ i = Len(s) + 1
BY AppendProperties, LenProperties, ElementOfSeq

(* The first request leaves it.                                            *)
LEMMA Pops ==
    ASSUME NEW s \in Seq(Request), s # <<>>
    PROVE  /\ Head(s) \in Request /\ Head(s) = s[1] /\ 1 \in 1..Len(s)
           /\ Tail(s) \in Seq(Request)
           /\ Len(s) \in Nat /\ Len(Tail(s)) \in Nat /\ Len(s) = Len(Tail(s)) + 1
           /\ \A i \in 1..Len(Tail(s)) : i + 1 \in 1..Len(s) /\ Tail(s)[i] = s[i + 1]
           /\ \A i \in 1..Len(s) : i = 1 \/ i - 1 \in 1..Len(Tail(s))
<1>1. Len(s) \in Nat /\ Len(s) # 0 /\ Len(Tail(s)) = Len(s) - 1
  BY EmptySeq, HeadTailProperties, LenProperties
<1> QED BY <1>1, HeadTailProperties

LEMMA Lone ==
    ASSUME NEW s \in Seq(Request), s # <<>>, Len(s) = 1
    PROVE  Tail(s) = <<>>
<1>1. Len(Tail(s)) = 0 /\ Tail(s) \in Seq(Request)
  BY Pops
<1> QED BY <1>1, EmptySeq

LEMMA GoodPush ==
    ASSUME NEW s, Good(s), NEW q \in Request, Sound(q)
    PROVE  Good(Append(s, q))
BY Pushes DEF Good

LEMMA GoodPop ==
    ASSUME NEW s, Good(s), s # <<>>
    PROVE  Good(Tail(s)) /\ Head(s) \in Request /\ Sound(Head(s))
BY Pops DEF Good

(* The last of some requests.                                              *)
LEMMA LastExists ==
    ASSUME NEW k \in Nat, NEW T \in SUBSET (1..k), T # {}
    PROVE  \E m \in T : \A j \in T : j <= m
<1> DEFINE U == {n \in Nat : \A j \in T : j <= n}
           R == OpToRel(<, Nat)
<1>1. k \in U /\ U \subseteq Nat
  OBVIOUS
<1>2. IsWellFoundedOn(R, Nat)
  BY NatLessThanWellFounded
<1>a. R = {ss \in Nat \X Nat : ss[1] < ss[2]}
  BY DEF OpToRel
<1> HIDE DEF R
<1>3. PICK m \in U : \A y \in U : <<y, m>> \notin R
  BY <1>1, <1>2, WFMin
<1>4. m \in Nat /\ \A y \in U : ~(y < m)
  BY <1>a, <1>1, <1>3
<1>5. m \in T
  <2>1. SUFFICES ASSUME m \notin T PROVE FALSE
    OBVIOUS
  <2>2. PICK j \in T : TRUE
    OBVIOUS
  <2>3. m # 0
    BY <1>3, <2>2
  <2>4. m - 1 \in Nat /\ \A i \in T : i <= m - 1
    BY <1>3, <1>4, <2>1, <2>3
  <2>5. m - 1 \in U /\ m - 1 < m
    BY <2>4, <1>4
  <2> QED BY <1>4, <2>5
<1> QED BY <1>3, <1>5

Stopped(s) == [i \in DOMAIN s |-> Cancelled(s[i])]

LEMMA CancelFacts ==
    ASSUME NEW s, Good(s)
    PROVE  /\ Good(Stopped(s)) /\ Len(Stopped(s)) = Len(s)
           /\ \A i \in 1..Len(s) : /\ Stopped(s)[i].op = s[i].op /\ Stopped(s)[i].id = s[i].id
                                   /\ Stopped(s)[i].record = s[i].record
                                   /\ \/ s[i].then.kind # "load" /\ Stopped(s)[i] = s[i]
                                      \/ s[i].then.kind = "load" /\ Stopped(s)[i].then = NoThen
<1>1. DOMAIN s = 1..Len(s) /\ Len(s) \in Nat /\ \A i \in 1..Len(s) : s[i] \in Request
  BY ElementOfSeq, LenProperties DEF Good
<1>2. ASSUME NEW q \in Request, Sound(q)
      PROVE  /\ Cancelled(q) \in Request /\ Sound(Cancelled(q))
             /\ Cancelled(q).op = q.op /\ Cancelled(q).id = q.id
             /\ Cancelled(q).record = q.record
             /\ \/ q.then.kind # "load" /\ Cancelled(q) = q
                \/ q.then.kind = "load" /\ Cancelled(q).then = NoThen
  <2>1. CASE q.then.kind = "load"
    <3>1. NoThen.kind = "none" /\ NoThen \in Follow
      BY Numbers DEF NoThen
    <3>2. Cancelled(q) = [q EXCEPT !.then = NoThen]
      BY <2>1 DEF Cancelled
    <3>3. q.op = "get"
      BY <1>2, <2>1 DEF Sound
    <3> QED BY <2>1, <3>1, <3>2, <3>3 DEF Request, Sound, Edits, Flushing
  <2>2. CASE q.then.kind # "load"
    BY <1>2, <2>2 DEF Cancelled
  <2> QED BY <2>1, <2>2
<1>3. \A i \in 1..Len(s) : Stopped(s)[i] = Cancelled(s[i]) /\ Sound(s[i])
  BY <1>1 DEF Stopped, Good
<1>4. Stopped(s) \in Seq(Request) /\ Len(Stopped(s)) = Len(s)
  BY <1>1, <1>2, <1>3 DEF Stopped
<1> QED BY <1>1, <1>2, <1>3, <1>4 DEF Good

LEMMA Makes ==
    ASSUME NEW id \in DocIds, NEW record \in Records, NEW t \in Follow
    PROVE  /\ Put(id, record, t) \in Request /\ Get(id, t) \in Request
           /\ Put(id, record, t).op = "put" /\ Put(id, record, t).id = id
           /\ Put(id, record, t).record = record /\ Put(id, record, t).then = t
           /\ Get(id, t).op = "get" /\ Get(id, t).id = id
           /\ Get(id, t).record = None /\ Get(id, t).then = t
BY DEF Put, Get, Request

LEMMA Asks ==
    ASSUME NEW id \in DocIds, NEW t \in Follow
    PROVE  /\ Get(id, t) \in Request
           /\ Get(id, t).op = "get" /\ Get(id, t).id = id
           /\ Get(id, t).record = None /\ Get(id, t).then = t
BY DEF Get, Request

LEMMA ThenFacts ==
    ASSUME NEW kind \in Kinds, NEW id \in DocIds \cup {None},
           NEW record \in Records \cup {None}, NEW now \in BOOLEAN
    PROVE  /\ Then(kind, id, record, now) \in Follow
           /\ Then(kind, id, record, now).kind = kind /\ Then(kind, id, record, now).id = id
           /\ Then(kind, id, record, now).record = record
           /\ Then(kind, id, record, now).now = now
BY DEF Then, Follow

LEMMA Plainly ==
    /\ NoThen \in Follow /\ NoThen.kind = "none"
    /\ "none" \notin Edits /\ "queue" \notin Edits /\ "save" \notin Edits /\ "load" \notin Edits
    /\ Edits \subseteq Kinds /\ {"none", "queue", "load", "save"} \subseteq Kinds
    /\ Flushing \subseteq Edits /\ "count" \in Edits
BY Numbers DEF NoThen, Edits, Flushing, Kinds

(* A plain write may be sent at any time.                                  *)
LEMMA SoundPut ==
    ASSUME NEW id \in DocIds, NEW record \in Records
    PROVE  Put(id, record, NoThen) \in Request /\ Sound(Put(id, record, NoThen))
<1>1. Put(id, record, NoThen) \in Request /\ record # None
  BY Makes, Plainly, Numbers
<1> QED BY <1>1, Makes, Plainly DEF Sound

LEMMA PendingFacts ==
    ASSUME Shapes
    PROVE  /\ pending # None => pending.id \in DocIds /\ pending.record \in Records
           /\ \A id \in DocIds, record \in Records :
                 /\ [id |-> id, record |-> record] \in [id : DocIds, record : Records]
                 /\ [id |-> id, record |-> record] # None
                 /\ [id |-> id, record |-> record].id = id
                 /\ [id |-> id, record |-> record].record = record
BY Numbers DEF Shapes

-----------------------------------------------------------------------------
(* Parts of the actions *)

(* Putting a record in the place of whatever is pending.                   *)
LEMMA ReplaceShapes ==
    ASSUME NEW id \in DocIds, NEW record \in Records, NEW now \in BOOLEAN,
           NEW s, Good(s), Shapes, Replace(id, record, now, s)
    PROVE  Good(requests') /\ pending' \in [id : DocIds, record : Records] \cup {None}
<1>1. CASE now
  <2>1. requests' = Append(s, Put(id, record, NoThen)) /\ pending' = None
    BY <1>1 DEF Replace
  <2> QED BY <2>1, SoundPut, GoodPush
<1>2. CASE ~now
  BY <1>2, PendingFacts DEF Replace
<1> QED BY <1>1, <1>2

LEMMA QueueShapes ==
    ASSUME NEW id \in DocIds, NEW record \in Records, NEW now \in BOOLEAN,
           Shapes, Queue(id, record, now)
    PROVE  Good(requests') /\ pending' \in [id : DocIds, record : Records] \cup {None}
<1>1. CASE pending # None /\ pending.id # id
  <2> DEFINE t == Then("queue", id, record, now)
             q == Put(pending.id, pending.record, t)
  <2>1. pending' = None /\ requests' = Append(requests, q)
    BY <1>1 DEF Queue
  <2>2. t \in Follow /\ t.kind = "queue" /\ t.id = id /\ t.record = record
    BY ThenFacts, Plainly
  <2> HIDE DEF t
  <2>3. /\ q \in Request /\ q.op = "put" /\ q.record = pending.record /\ q.then = t
        /\ pending.record # None /\ record # None
    BY <1>1, <2>2, PendingFacts, Makes, Numbers
  <2> HIDE DEF q
  <2>4. Sound(q)
    BY <2>2, <2>3, Plainly DEF Sound
  <2> QED BY <2>1, <2>3, <2>4, GoodPush DEF Shapes
<1>2. CASE ~(pending # None /\ pending.id # id)
  <2>1. Replace(id, record, now, requests)
    BY <1>2 DEF Queue
  <2> QED BY <2>1, ReplaceShapes DEF Shapes
<1> QED BY <1>1, <1>2

LEMMA FlushShapes ==
    ASSUME NEW t \in Follow, t.kind \in Edits \cup {"save"}, t.id \in DocIds,
           t.kind \in Edits => t.record # None,
           Shapes, FlushThenGet(t.id, t)
    PROVE  Good(requests') /\ pending' = None
<1>1. /\ Get(t.id, t) \in Request /\ Get(t.id, t).op = "get" /\ Get(t.id, t).id = t.id
      /\ Get(t.id, t).then = t
  BY Makes, RecordFacts
<1>2. Sound(Get(t.id, t))
  BY <1>1, Plainly DEF Sound
<1>3. CASE pending = None
  BY <1>1, <1>2, <1>3, GoodPush DEF FlushThenGet, Shapes
<1>4. CASE pending # None
  <2> DEFINE q == Put(pending.id, pending.record, t)
  <2>1. q \in Request /\ q.op = "put" /\ q.record # None /\ q.then = t
    BY <1>4, PendingFacts, Makes, Numbers
  <2>2. pending' = None /\ requests' = Append(requests, q)
    BY <1>4 DEF FlushThenGet
  <2> HIDE DEF q
  <2>3. Sound(q)
    BY <2>1, Plainly DEF Sound
  <2> QED BY <2>1, <2>2, <2>3, GoodPush DEF Shapes
<1> QED BY <1>3, <1>4

(* What the tab holds of the open document after an edit.                  *)
LEMMA HeldFacts ==
    ASSUME NEW r \in Records, clock \in Stamps, clock < MaxStamp
    PROVE  /\ Fresh \in Stamps
           /\ [r EXCEPT !.rows = @ \cup {Fresh}, !.dirty = TRUE] \in Records
           /\ \A s : [r EXCEPT !.rows = @ \ {s}, !.dirty = TRUE] \in Records
           /\ [r EXCEPT !.name = Fresh] \in Records
           /\ [r EXCEPT !.colors = Fresh] \in Records
           /\ [r EXCEPT !.password = Fresh] \in Records
           /\ [r EXCEPT !.rest = Fresh, !.dirty = TRUE] \in Records
<1>1. Fresh \in Stamps
  BY Numbers DEF Fresh
<1> HIDE DEF Fresh
<1> QED BY <1>1 DEF Records

LEMMA InitShapes == Init => Shapes /\ InTurn
<1> SUFFICES ASSUME Init PROVE Shapes /\ InTurn
  OBVIOUS
<1>1. Good(<<>>) /\ Len(<<>>) = 0
  BY EmptySeq DEF Good
<1>2. disk \in [DocIds -> Records \cup {None}]
  BY RecordFacts DEF Init
<1>3. server \in [DocIds -> Records] /\ plan \in [DocIds -> Records \cup {None}]
  BY RecordFacts DEF Init
<1>4. undone \subseteq Stamps /\ clock \in Stamps
  BY Numbers DEF Init
<1>5. Shapes
  BY <1>1, <1>2, <1>3, <1>4, Numbers DEF Init, Shapes
<1>6. requests = <<>>
  BY DEF Init
<1>7. InTurn
  BY <1>1, <1>6 DEF InTurn, Turns
<1> QED BY <1>5, <1>7

(* The document of the answer that comes first.                            *)
LEMMA HeadFacts ==
    ASSUME Shapes, Answered
    PROVE  /\ Head1 \in Request /\ Sound(Head1) /\ Good(Rest) /\ Head1 = requests[1]
           /\ Head1.id \in DocIds /\ Head1.record \in Records \cup {None}
           /\ Head1.then \in Follow /\ disk[Head1.id] \in Records \cup {None}
           /\ Head1.then.kind \in Kinds /\ Head1.then.id \in DocIds \cup {None}
           /\ Head1.then.record \in Records \cup {None} /\ Head1.then.now \in BOOLEAN
           /\ 1 \in 1..Len(requests)
<1>1. requests # <<>> /\ requests \in Seq(Request) /\ Good(requests)
  BY DEF Shapes, Answered, Good
<1>2. Head1 \in Request /\ Sound(Head1) /\ Good(Rest) /\ Head1 = requests[1] /\ 1 \in 1..Len(requests)
  BY <1>1, GoodPop, Pops DEF Head1, Rest
<1> HIDE DEF Head1, Rest
<1>3. Head1.id \in DocIds /\ Head1.record \in Records \cup {None} /\ Head1.then \in Follow
  BY <1>2 DEF Request
<1>4. disk[Head1.id] \in Records \cup {None}
  BY <1>3 DEF Shapes
<1>5. /\ Head1.then.kind \in Kinds /\ Head1.then.id \in DocIds \cup {None}
      /\ Head1.then.record \in Records \cup {None} /\ Head1.then.now \in BOOLEAN
  BY <1>3 DEF Follow
<1> QED BY <1>2, <1>3, <1>4, <1>5

(* A step that only moves requests and what is pending.                    *)
LEMMA MovedShapes ==
    ASSUME Shapes, Good(requests'), pending' \in [id : DocIds, record : Records] \cup {None},
           disk' \in [DocIds -> Records \cup {None}],
           UNCHANGED <<open, plan, loading, saving, remote, clock>>
    PROVE  Shapes'
BY DEF Shapes, remote, Idle

LEMMA PutDoneShapes == Shapes /\ PutDone => Shapes'
<1> SUFFICES ASSUME Shapes, PutDone PROVE Shapes'
  OBVIOUS
<1> DEFINE then == Head1.then
<1>1. Answered /\ Head1.op = "put" /\ disk' = [disk EXCEPT ![Head1.id] = Head1.record]
  BY DEF PutDone
<1>2. disk' \in [DocIds -> Records \cup {None}]
  BY <1>1, HeadFacts DEF Shapes
<1>3. UNCHANGED <<open, plan, loading, saving, remote, clock>>
  BY DEF PutDone
<1>4. pending \in [id : DocIds, record : Records] \cup {None}
  BY DEF Shapes
<1>5. CASE then.kind = "none"
  <2>1. requests' = Rest /\ pending' = pending
    BY <1>5 DEF PutDone
  <2> QED BY <1>1, <1>2, <1>3, <1>4, <2>1, HeadFacts, MovedShapes
<1>6. CASE then.kind = "queue"
  <2>1. Replace(then.id, then.record, then.now, Rest)
    BY <1>6, Plainly DEF PutDone
  <2>2. then.id \in DocIds /\ then.record \in Records /\ then.now \in BOOLEAN /\ Good(Rest)
    BY <1>1, <1>6, HeadFacts DEF Sound
  <2> HIDE DEF then
  <2>3. Good(requests') /\ pending' \in [id : DocIds, record : Records] \cup {None}
    BY <2>1, <2>2, ReplaceShapes
  <2> QED BY <1>2, <1>3, <2>3, MovedShapes
<1>7. CASE then.kind \notin {"none", "queue"}
  <2> DEFINE q == Get(then.id, then)
  <2>1. requests' = Append(Rest, q) /\ pending' = pending
    BY <1>7 DEF PutDone
  <2>2. then.kind \in Edits \cup {"save"}
    BY <1>1, <1>7, HeadFacts DEF Sound, Kinds
  <2>3. /\ then.id \in DocIds /\ then \in Follow /\ Good(Rest)
        /\ then.kind \in Edits => then.record # None
    BY <1>1, <2>2, HeadFacts DEF Sound
  <2>4. q \in Request /\ q.op = "get" /\ q.id = then.id /\ q.then = then
    BY <2>3, RecordFacts, Makes
  <2> HIDE DEF q, then
  <2>5. Sound(q)
    BY <2>2, <2>3, <2>4, Plainly DEF Sound
  <2>6. Good(requests')
    BY <2>1, <2>3, <2>4, <2>5, GoodPush
  <2> QED BY <1>2, <1>3, <1>4, <2>1, <2>6, MovedShapes
<1> QED BY <1>5, <1>6, <1>7

LEMMA EditReadShapes == Shapes /\ EditRead => Shapes'
<1> SUFFICES ASSUME Shapes, EditRead PROVE Shapes'
  OBVIOUS
<1> DEFINE old == disk[Head1.id]
           new == Merged(Head1.then.kind, old, Head1.then.record)
<1>1. /\ Answered /\ Head1.then.kind \in Edits
      /\ UNCHANGED <<disk, pending, open, plan, loading, saving, remote, clock>>
      /\ requests' = IF old = None THEN Rest ELSE Append(Rest, Put(Head1.id, new, NoThen))
  BY DEF EditRead
<1>2. Head1.then.record \in Records /\ Head1.id \in DocIds /\ old \in Records \cup {None}
      /\ Good(Rest)
  BY <1>1, HeadFacts DEF Sound
<1>3. old # None => new \in Records
  BY <1>1, <1>2, RecordFacts
<1> HIDE DEF old, new
<1>4. Good(requests')
  BY <1>1, <1>2, <1>3, SoundPut, GoodPush
<1> QED BY <1>1, <1>4, MovedShapes DEF Shapes

LEMMA AnswersShapes ==
    Shapes /\ InTurn /\ (Deleted \/ Ignored \/ LoadRead \/ OpenFails \/ TimerFires) => Shapes'
<1> SUFFICES ASSUME Shapes, InTurn, Deleted \/ Ignored \/ LoadRead \/ OpenFails \/ TimerFires
             PROVE  Shapes'
  OBVIOUS
<1>0. pending \in [id : DocIds, record : Records] \cup {None}
  BY DEF Shapes
<1>1. CASE Deleted
  <2>1. Answered /\ requests' = Rest /\ disk' = [disk EXCEPT ![Head1.id] = None]
        /\ UNCHANGED <<pending, open, plan, loading, saving, remote, clock>>
    BY <1>1 DEF Deleted
  <2>2. disk' \in [DocIds -> Records \cup {None}]
    BY <2>1 DEF Shapes
  <2> QED BY <1>0, <2>1, <2>2, HeadFacts, MovedShapes
<1>2. CASE Ignored
  <2>1. Answered /\ requests' = Rest /\ disk' = disk
        /\ UNCHANGED <<pending, open, plan, loading, saving, remote, clock>>
    BY <1>2 DEF Ignored
  <2> QED BY <1>0, <2>1, HeadFacts, MovedShapes DEF Shapes
<1>3. CASE LoadRead
  <2>1. Answered /\ requests' = Rest /\ Head1.id \in DocIds
        /\ loading' = [loading EXCEPT !.read = TRUE, !.record = disk[Head1.id]]
        /\ UNCHANGED <<disk, pending, open, plan, saving, remote, clock>>
    BY <1>3, HeadFacts DEF LoadRead
  <2>2. Good(requests') /\ disk[Head1.id] \in Records \cup {None}
    BY <2>1, HeadFacts
  <2>3. loading.id \in DocIds
    BY <1>3, <2>1, HeadFacts DEF LoadRead, InTurn, Turns
  <2>4. /\ loading' \in [id : DocIds \cup {None}, read : BOOLEAN, record : Records \cup {None}]
        /\ loading'.id = loading.id
    BY <2>1, <2>2 DEF Shapes
  <2>5. saving = None
    BY <2>3, Numbers DEF Shapes, Idle
  <2>6. loading'.id # None /\ saving' = None
    BY <2>1, <2>3, <2>4, <2>5, Numbers
  <2> QED BY <2>1, <2>2, <2>4, <2>6 DEF Shapes, remote
<1>4. CASE OpenFails
  BY <1>4, Numbers DEF OpenFails, Shapes, remote, vars, Idle
<1>5. CASE TimerFires
  <2>1. pending' = None /\ pending # None
        /\ requests' = Append(requests, Put(pending.id, pending.record, NoThen))
        /\ UNCHANGED <<disk, open, plan, loading, saving, remote, clock>>
    BY <1>5 DEF TimerFires
  <2>2. Good(requests')
    BY <2>1, PendingFacts, SoundPut, GoodPush DEF Shapes
  <2> QED BY <2>1, <2>2, MovedShapes DEF Shapes
<1> QED BY <1>1, <1>2, <1>3, <1>4, <1>5

LEMMA StrokeShapes ==
    Shapes /\ (Stroke \/ \E s \in Stamps : Undo(s)) => Shapes'
<1> SUFFICES ASSUME Shapes, Stroke \/ \E s \in Stamps : Undo(s) PROVE Shapes'
  OBVIOUS
<1> DEFINE Edit(held) ==
             /\ CanEdit /\ Hold(held)
             /\ Queue(open, Plain(held), FALSE) \/ Queue(open, Plain(held), TRUE)
             /\ undone' \subseteq Stamps /\ clock' = Fresh
             /\ UNCHANGED <<disk, open, loading, saving, server>>
<1>0. \E held \in Records : Edit(held)
  <2>1. CASE Stroke
    <3>1. plan[open] \in Records /\ clock \in Stamps /\ clock < MaxStamp
      BY <2>1 DEF Stroke, CanEdit, Shapes
    <3> DEFINE new == [plan[open] EXCEPT !.rows = @ \cup {Fresh}, !.dirty = TRUE]
    <3>2. new \in Records
      BY <3>1, HeldFacts
    <3>3. /\ CanEdit /\ Hold(new) /\ Queue(open, Plain(new), FALSE) /\ clock' = Fresh
          /\ UNCHANGED <<disk, open, loading, saving, remote>>
      BY <2>1 DEF Stroke
    <3> HIDE DEF new
    <3> QED BY <3>2, <3>3 DEF Shapes, remote
  <2>2. ASSUME NEW s \in Stamps, Undo(s) PROVE \E held \in Records : Edit(held)
    <3>1. plan[open] \in Records /\ clock \in Stamps /\ clock < MaxStamp
      BY <2>2 DEF Undo, CanEdit, Shapes
    <3> DEFINE new == [plan[open] EXCEPT !.rows = @ \ {s}, !.dirty = TRUE]
    <3>2. new \in Records
      BY <3>1, HeldFacts
    <3>3. /\ CanEdit /\ Hold(new) /\ Queue(open, Plain(new), TRUE) /\ clock' = Fresh
          /\ undone' = undone \cup {s}
          /\ UNCHANGED <<disk, open, loading, saving, server>>
      BY <2>2 DEF Undo
    <3> HIDE DEF new
    <3> QED BY <3>2, <3>3 DEF Shapes
  <2> QED BY <2>1, <2>2
<1>1. PICK held \in Records : Edit(held)
  BY <1>0
<1>2. open \in DocIds /\ Fresh \in Stamps
  BY <1>1, HeldFacts, RecordFacts DEF CanEdit, Shapes
<1>3. Plain(held) \in Records
  BY RecordFacts
<1>4. Good(requests') /\ pending' \in [id : DocIds, record : Records] \cup {None}
  BY <1>1, <1>2, <1>3, QueueShapes
<1>5. plan' = [plan EXCEPT ![open] = held]
  BY <1>1 DEF Hold
<1>6. plan' \in [DocIds -> Records \cup {None}] /\ plan'[open] # None
  BY <1>2, <1>5, Numbers DEF Shapes
<1> QED BY <1>1, <1>2, <1>4, <1>6 DEF Shapes, Idle

LEMMA MetadataShapes ==
    Shapes /\ (SetCount \/ \E kind \in Flushing : EditMetadata(kind)) => Shapes'
<1> SUFFICES ASSUME Shapes, SetCount \/ \E kind \in Flushing : EditMetadata(kind) PROVE Shapes'
  OBVIOUS
<1> DEFINE Edit(held) ==
             /\ CanEdit /\ Hold(held)
             /\ Good(requests') /\ pending' \in [id : DocIds, record : Records] \cup {None}
             /\ server' \in [DocIds -> Records] /\ clock' = Fresh
             /\ UNCHANGED <<disk, open, loading, saving, undone>>
<1>0. \E held \in Records : Edit(held)
  <2>1. CASE SetCount
    <3> DEFINE new == [plan[open] EXCEPT !.rest = Fresh, !.dirty = TRUE]
               t == Then("count", open, new, FALSE)
               q == Get(open, t)
    <3>1. plan[open] \in Records /\ clock \in Stamps /\ clock < MaxStamp /\ open \in DocIds
      BY <2>1 DEF SetCount, CanEdit, Shapes
    <3>2. new \in Records
      BY <3>1, HeldFacts
    <3>3. /\ CanEdit /\ Hold(new) /\ requests' = Append(requests, q) /\ clock' = Fresh
          /\ UNCHANGED <<disk, pending, open, loading, saving, remote>>
      BY <2>1 DEF SetCount
    <3> HIDE DEF new
    <3>4. t \in Follow /\ t.kind = "count" /\ t.id = open /\ t.record = new
      BY <3>1, <3>2, Plainly DEF Then, Follow
    <3> HIDE DEF t
    <3>5. q \in Request /\ q.op = "get" /\ q.id = open /\ q.then = t
      BY <3>1, <3>2, <3>4, Makes
    <3> HIDE DEF q
    <3>6. Sound(q)
      BY <3>1, <3>2, <3>4, <3>5, Plainly, Numbers DEF Sound
    <3> QED BY <3>2, <3>3, <3>5, <3>6, GoodPush DEF Shapes, remote
  <2>2. ASSUME NEW kind \in Flushing, EditMetadata(kind) PROVE \E held \in Records : Edit(held)
    <3> DEFINE new == CASE kind = "name"     -> [plan[open] EXCEPT !.name = Fresh]
                         [] kind = "colors"   -> [plan[open] EXCEPT !.colors = Fresh]
                         [] kind = "password" -> [plan[open] EXCEPT !.password = Fresh]
                         [] kind = "document" -> [plan[open] EXCEPT !.rest = Fresh,
                                                                    !.dirty = TRUE]
               t == Then(kind, open, new, FALSE)
    <3>1. /\ plan[open] \in Records /\ clock \in Stamps /\ clock < MaxStamp /\ open \in DocIds
          /\ server[open] \in Records
      BY <2>2 DEF EditMetadata, CanEdit, Shapes
    <3>2. new \in Records
      BY <3>1, HeldFacts DEF Flushing
    <3>3. /\ CanEdit /\ Hold(new) /\ FlushThenGet(open, t) /\ clock' = Fresh
          /\ server' = IF kind = "name" THEN [server EXCEPT ![open].name = Fresh] ELSE server
          /\ UNCHANGED <<disk, open, loading, saving, undone>>
      BY <2>2 DEF EditMetadata
    <3> HIDE DEF new
    <3>4. t \in Follow /\ t.kind = kind /\ t.id = open /\ t.record = new
      BY <3>1, <3>2, Plainly DEF Then, Follow
    <3> HIDE DEF t
    <3>5. Good(requests') /\ pending' = None
      BY <3>1, <3>2, <3>3, <3>4, FlushShapes, Plainly, Numbers
    <3>6. [server[open] EXCEPT !.name = Fresh] \in Records
      BY <3>1, HeldFacts
    <3>7. server' \in [DocIds -> Records]
      BY <3>1, <3>3, <3>6 DEF Shapes
    <3> QED BY <3>2, <3>3, <3>5, <3>7
  <2> QED BY <2>1, <2>2
<1>1. PICK held \in Records : Edit(held)
  BY <1>0
<1>2. open \in DocIds /\ Fresh \in Stamps
  BY <1>1, HeldFacts, RecordFacts DEF CanEdit, Shapes
<1>3. plan' = [plan EXCEPT ![open] = held]
  BY <1>1 DEF Hold
<1>4. plan' \in [DocIds -> Records \cup {None}] /\ plan'[open] # None
  BY <1>2, <1>3, Numbers DEF Shapes
<1> QED BY <1>1, <1>2, <1>4 DEF Shapes, Idle

LEMMA DeleteShapes ==
    ASSUME Shapes, NEW d \in DocIds, Delete(d)
    PROVE  Shapes'
<1> DEFINE q == [op |-> "delete", id |-> d, record |-> None, then |-> NoThen]
<1>1. /\ requests' = Append(requests, q) /\ plan' = [plan EXCEPT ![d] = None] /\ d # open
      /\ UNCHANGED <<disk, pending, open, loading, saving, remote, clock>>
  BY DEF Delete
<1>2. /\ q \in Request /\ q.op = "delete" /\ q.then.kind = "none" /\ q.record = None
  BY Plainly DEF Request
<1> HIDE DEF q
<1>3. Sound(q)
  BY <1>2, Plainly DEF Sound
<1>4. Good(requests')
  BY <1>1, <1>2, <1>3, GoodPush DEF Shapes
<1>5. plan' \in [DocIds -> Records \cup {None}] /\ (open # None => plan'[open] # None)
  BY <1>1 DEF Shapes
<1> QED BY <1>1, <1>4, <1>5 DEF Shapes, remote, Idle

LEMMA StartOpenShapes ==
    ASSUME Shapes, NEW d \in DocIds, StartOpen(d)
    PROVE  Shapes'
<1> DEFINE t == Then("load", d, None, FALSE)
           q == Get(d, t)
<1>1. /\ requests' = Append(Stopped(requests), q) /\ loading' = [Idle EXCEPT !.id = d]
      /\ saving = None /\ UNCHANGED <<disk, pending, open, plan, saving, remote, clock>>
  BY DEF StartOpen, Stopped
<1>2. t \in Follow /\ t.kind = "load"
  BY Plainly DEF Then, Follow
<1> HIDE DEF t
<1>3. q \in Request /\ q.op = "get" /\ q.then = t
  BY <1>2, Makes, RecordFacts
<1> HIDE DEF q
<1>4. Sound(q)
  BY <1>2, <1>3, Plainly DEF Sound
<1>5. Good(requests')
  BY <1>1, <1>3, <1>4, GoodPush, CancelFacts DEF Shapes
<1>6. /\ loading' \in [id : DocIds \cup {None}, read : BOOLEAN, record : Records \cup {None}]
      /\ loading'.id # None
  BY <1>1, Numbers DEF Idle
<1> QED BY <1>1, <1>5, <1>6 DEF Shapes, remote

(* The record that is shown when a document opens.                         *)
LEMMA Shown ==
    ASSUME Shapes, OpenOnline \/ OpenOffline
    PROVE  \E record \in Records :
              /\ Show(record) /\ loading.read /\ Alone /\ loading.id \in DocIds
              /\ record.shouldFetch = FALSE
              /\ IF loading.record = None \/ loading.record.shouldFetch
                 THEN \/ record.rows = server[loading.id].rows
                      \/ /\ "offline" \in Allowed /\ loading.record # None
                         /\ record.rows = loading.record.rows
                 ELSE record.rows = loading.record.rows
<1>1. /\ loading.read /\ Alone /\ loading.id \in DocIds
      /\ loading.record \in Records \cup {None} /\ server[loading.id] \in Records
  BY DEF OpenOnline, OpenOffline, Shapes, Idle
<1>2. \A r \in Records : /\ Plain(r) \in Records /\ Plain(r).rows = r.rows
                         /\ Plain(r).shouldFetch = FALSE
  <2> TAKE r \in Records
  <2>1. Plain(r) \in Records
    BY RecordFacts
  <2> QED BY <2>1 DEF Plain, Records
<1>3. CASE OpenOnline
  <2> DEFINE record == loading.record
             new == [server[loading.id] EXCEPT !.rows = record.rows]
  <2>1. CASE record = None \/ record.shouldFetch
    <3>1. Show(Plain(server[loading.id]))
      BY <1>3, <2>1 DEF OpenOnline
    <3> QED BY <1>1, <1>2, <2>1, <3>1
  <2>2. CASE record # None /\ ~record.shouldFetch /\ record.dirty
    <3>1. Show(Plain(record))
      BY <1>3, <2>2 DEF OpenOnline
    <3> QED BY <1>1, <1>2, <2>2, <3>1
  <2>3. CASE record # None /\ ~record.shouldFetch /\ ~record.dirty
    <3>1. Show(Plain(new))
      BY <1>3, <2>3 DEF OpenOnline
    <3>2. new \in Records /\ new.rows = record.rows
      BY <1>1, <2>3 DEF Records
    <3> HIDE DEF new
    <3> QED BY <1>1, <1>2, <2>3, <3>1, <3>2
  <2> QED BY <2>1, <2>2, <2>3
<1>4. CASE OpenOffline
  <2>1. /\ Show(Plain(loading.record)) /\ loading.record # None
        /\ loading.record.shouldFetch => "offline" \in Allowed
    BY <1>4 DEF OpenOffline
  <2> QED BY <1>1, <1>2, <2>1
<1> QED BY <1>3, <1>4

LEMMA ShowShapes == Shapes /\ (OpenOnline \/ OpenOffline) => Shapes'
<1> SUFFICES ASSUME Shapes, OpenOnline \/ OpenOffline PROVE Shapes'
  OBVIOUS
<1>1. PICK record \in Records : Show(record) /\ loading.id \in DocIds
  BY Shown
<1>2. /\ open' = loading.id /\ plan' = [plan EXCEPT ![loading.id] = record]
      /\ Queue(loading.id, Plain(record), TRUE) /\ loading' = Idle
      /\ UNCHANGED <<disk, saving, remote, clock>>
  BY <1>1 DEF Show
<1>3. Good(requests') /\ pending' \in [id : DocIds, record : Records] \cup {None}
  BY <1>1, <1>2, RecordFacts, QueueShapes
<1>4. plan' \in [DocIds -> Records \cup {None}] /\ plan'[loading.id] # None
  BY <1>1, <1>2, Numbers DEF Shapes
<1>5. saving = None
  BY <1>1, Numbers DEF Shapes, Idle
<1> QED BY <1>1, <1>2, <1>3, <1>4, <1>5, Numbers DEF Shapes, remote

LEMMA StartSaveShapes == Shapes /\ StartSave => Shapes'
<1> SUFFICES ASSUME Shapes, StartSave PROVE Shapes'
  OBVIOUS
<1> DEFINE t == Then("save", open, None, FALSE)
<1>1. /\ FlushThenGet(open, t) /\ saving' = open /\ open # None /\ loading = Idle
      /\ UNCHANGED <<disk, open, plan, loading, remote, clock>>
  BY DEF StartSave
<1>2. t \in Follow /\ t.kind = "save" /\ t.id = open /\ open \in DocIds
  BY <1>1, Plainly DEF Then, Follow, Shapes
<1> HIDE DEF t
<1>3. Good(requests') /\ pending' = None
  BY <1>1, <1>2, FlushShapes, Plainly
<1> QED BY <1>1, <1>3 DEF Shapes, remote, Idle

(* The document being saved when the save reads its record.                *)
LEMMA SavingFacts ==
    ASSUME Shapes, InTurn, NEW ok, SaveRead(ok)
    PROVE  /\ Answered /\ Head1.op = "get" /\ Head1.then.kind = "save"
           /\ Head1.id = saving /\ saving = open /\ open \in DocIds /\ loading = Idle
           /\ plan[open] \in Records
           /\ Plain([plan[open] EXCEPT !.dirty = FALSE]) \in Records
           /\ Plain([plan[open] EXCEPT !.dirty = FALSE]).rows = plan[open].rows
<1>1. Answered /\ Head1.op = "get" /\ Head1.then.kind = "save"
  BY DEF SaveRead
<1>2. Head1.id = Head1.then.id /\ Head1.then.id \in DocIds /\ Head1.then.id = saving
  BY <1>1, HeadFacts DEF Sound, InTurn, Turns
<1>3. saving = open /\ open \in DocIds /\ loading = Idle /\ plan[open] \in Records
  BY <1>2, Numbers DEF Shapes
<1>4. /\ [plan[open] EXCEPT !.dirty = FALSE] \in Records
      /\ [plan[open] EXCEPT !.dirty = FALSE].rows = plan[open].rows
  BY <1>3 DEF Records
<1>5. \A r \in Records : Plain(r) \in Records /\ Plain(r).rows = r.rows
  BY RecordFacts DEF Plain, Records
<1> QED BY <1>1, <1>2, <1>3, <1>4, <1>5

LEMMA SaveReadShapes ==
    ASSUME Shapes, InTurn, NEW ok, SaveRead(ok)
    PROVE  Shapes'
<1> DEFINE saved == Plain([plan[open] EXCEPT !.dirty = FALSE])
<1>1. /\ saving' = None /\ UNCHANGED <<disk, pending, open, loading, undone, clock>>
      /\ Answered /\ Head1.id = open /\ open \in DocIds /\ plan[open] \in Records
      /\ saved \in Records /\ Good(Rest)
  BY SavingFacts, HeadFacts DEF SaveRead
<1>2. CASE ok /\ disk[open] # None
  <2>1. /\ server' = [server EXCEPT ![open] = saved]
        /\ plan' = [plan EXCEPT ![open].dirty = FALSE]
        /\ requests' = Append(Rest, Put(open, saved, NoThen))
    BY <1>1, <1>2 DEF SaveRead
  <2> HIDE DEF saved
  <2>2. Good(requests')
    BY <1>1, <2>1, SoundPut, GoodPush
  <2>3. server' \in [DocIds -> Records]
    BY <1>1, <2>1 DEF Shapes
  <2>4. [plan[open] EXCEPT !.dirty = FALSE] \in Records
    BY <1>1 DEF Records
  <2>5. plan' = [plan EXCEPT ![open] = [plan[open] EXCEPT !.dirty = FALSE]]
    BY <2>1
  <2>6. plan' \in [DocIds -> Records \cup {None}] /\ plan'[open] # None
    BY <1>1, <2>4, <2>5, Numbers DEF Shapes
  <2> QED BY <1>1, <2>2, <2>3, <2>6 DEF Shapes, Idle
<1>3. CASE ~(ok /\ disk[open] # None)
  <2>1. requests' = Rest /\ UNCHANGED <<server, plan>>
    BY <1>1, <1>3 DEF SaveRead
  <2> QED BY <1>1, <2>1 DEF Shapes, Idle
<1> QED BY <1>2, <1>3

(* What the browser carries out of the requests that were made: a record   *)
(* stays, or becomes what one of them wrote.                               *)
LEMMA WritesFacts ==
    ASSUME NEW s, Good(s), NEW k \in 0..Len(s), NEW d \in DocIds
    PROVE  \/ Writes(s, k)[d] = disk[d]
           \/ \E i \in 1..Len(s) : /\ s[i].op # "get" /\ s[i].id = d
                                   /\ Writes(s, k)[d] = s[i].record
<1> DEFINE mine == {i \in 1..k : s[i].id = d /\ s[i].op # "get"}
           last == CHOOSE i \in mine : \A j \in mine : j <= i
<1>1. Writes(s, k)[d] = IF mine = {} THEN disk[d] ELSE s[last].record
  BY DEF Writes
<1>2. k \in Nat /\ mine \in SUBSET (1..k) /\ 1..k \subseteq 1..Len(s)
  BY LenProperties DEF Good
<1>3. ASSUME mine # {} PROVE last \in mine
  <2>1. \E i \in mine : \A j \in mine : j <= i
    BY <1>2, <1>3, LastExists
  <2> QED BY <2>1
<1> HIDE DEF last
<1> QED BY <1>1, <1>2, <1>3

LEMMA ExitFacts ==
    ASSUME Shapes, NEW kicked \in BOOLEAN, Exit(kicked)
    PROVE  /\ disk' \in [DocIds -> Records \cup {None}]
           /\ \A d \in DocIds :
                 \/ disk'[d] = disk[d]
                 \/ \E i \in 1..Len(requests) : /\ requests[i].op # "get" /\ requests[i].id = d
                                                /\ disk'[d] = requests[i].record
                 \/ pending # None /\ pending.id = d /\ disk'[d] = pending.record
<1> DEFINE last == Put(pending.id, pending.record, NoThen)
           made == IF kicked /\ pending # None THEN Append(requests, last) ELSE requests
<1>1. PICK k \in 0..Len(made) : disk' = Writes(made, k)
  BY DEF Exit
<1>2. pending # None => /\ last \in Request /\ Sound(last) /\ last.id = pending.id
                        /\ last.record = pending.record
  BY PendingFacts, SoundPut, Makes, Plainly
<1> HIDE DEF last
<1>3. Good(made)
  BY <1>2, GoodPush DEF Shapes
<1>4. \A i \in 1..Len(made) :
         \/ i \in 1..Len(requests) /\ made[i] = requests[i]
         \/ pending # None /\ made[i] = last
  BY <1>2, Pushes DEF Shapes, Good
<1> HIDE DEF made
<1>5. \A d \in DocIds : \/ disk'[d] = disk[d]
                        \/ \E i \in 1..Len(made) : /\ made[i].op # "get" /\ made[i].id = d
                                                   /\ disk'[d] = made[i].record
  BY <1>1, <1>3, WritesFacts
<1>6. \A d \in DocIds :
         \/ disk'[d] = disk[d]
         \/ \E i \in 1..Len(requests) : /\ requests[i].op # "get" /\ requests[i].id = d
                                        /\ disk'[d] = requests[i].record
         \/ pending # None /\ pending.id = d /\ disk'[d] = pending.record
  BY <1>2, <1>4, <1>5
<1>7. /\ \A i \in 1..Len(requests) : requests[i].record \in Records \cup {None}
      /\ disk \in [DocIds -> Records \cup {None}]
      /\ pending # None => pending.record \in Records
  <2>1. \A i \in 1..Len(requests) : requests[i] \in Request
    BY ElementOfSeq DEF Shapes, Good
  <2> QED BY <2>1, PendingFacts DEF Shapes, Request
<1>8. \A d \in DocIds : disk'[d] \in Records \cup {None}
  BY <1>6, <1>7
<1>9. disk' = [d \in DocIds |-> disk'[d]]
  BY <1>1 DEF Writes
<1> QED BY <1>6, <1>8, <1>9

LEMMA ExitShapes ==
    ASSUME Shapes, NEW kicked \in BOOLEAN, Exit(kicked)
    PROVE  Shapes'
<1>1. /\ requests' = <<>> /\ pending' = None /\ open' = None
      /\ plan' = [d \in DocIds |-> None]
      /\ loading' = Idle /\ saving' = None
      /\ UNCHANGED <<remote, clock>>
  BY DEF Exit
<1>2. Good(<<>>)
  BY EmptySeq DEF Good
<1>3. disk' \in [DocIds -> Records \cup {None}]
  BY ExitFacts
<1> QED BY <1>1, <1>2, <1>3, Numbers DEF Shapes, remote

LEMMA ShapesStep == Shapes /\ InTurn /\ [Next]_vars => Shapes'
<1> SUFFICES ASSUME Shapes, InTurn, [Next]_vars PROVE Shapes'
  OBVIOUS
<1>1. CASE PutDone \/ EditRead
  BY <1>1, PutDoneShapes, EditReadShapes
<1>2. CASE Deleted \/ Ignored \/ LoadRead \/ OpenFails \/ TimerFires
  BY <1>2, AnswersShapes
<1>3. CASE Stroke \/ \E s \in Stamps : Undo(s)
  BY <1>3, StrokeShapes
<1>4. CASE SetCount \/ \E kind \in Flushing : EditMetadata(kind)
  BY <1>4, MetadataShapes
<1>5. CASE \E d \in DocIds : Delete(d) \/ StartOpen(d)
  BY <1>5, DeleteShapes, StartOpenShapes
<1>6. CASE OpenOnline \/ OpenOffline
  BY <1>6, ShowShapes
<1>7. CASE StartSave
  BY <1>7, StartSaveShapes
<1>8. CASE \E b \in BOOLEAN : SaveRead(b) \/ Exit(b)
  BY <1>8, SaveReadShapes, ExitShapes
<1>9. CASE UNCHANGED vars
  BY <1>9 DEF vars, remote, Shapes, Idle
<1> QED BY <1>1, <1>2, <1>3, <1>4, <1>5, <1>6, <1>7, <1>8, <1>9 DEF Next

-----------------------------------------------------------------------------
(* Turns *)

LEMMA TurnsPush ==
    ASSUME NEW s, Good(s), NEW l, NEW sv, Turns(s, l, sv),
           NEW q \in Request, q.then.kind \notin {"save", "load"}
    PROVE  Turns(Append(s, q), l, sv)
BY Pushes DEF Turns, Good

LEMMA TurnsPop ==
    ASSUME NEW s, Good(s), s # <<>>, NEW l, NEW sv, Turns(s, l, sv)
    PROVE  /\ Turns(Tail(s), l, sv)
           /\ Head(s).then.kind = "save" =>
                 /\ Head(s).then.id = sv
                 /\ \A i \in 1..Len(Tail(s)) : Tail(s)[i].then.kind # "save"
           /\ Head(s).then.kind = "load" =>
                 \A i \in 1..Len(Tail(s)) : Tail(s)[i].then.kind # "load"
<1>1. /\ Head(s) = s[1] /\ 1 \in 1..Len(s) /\ Len(s) \in Nat /\ Len(Tail(s)) \in Nat
      /\ \A i \in 1..Len(Tail(s)) : i + 1 \in 1..Len(s) /\ Tail(s)[i] = s[i + 1] /\ i + 1 # 1
  BY Pops DEF Good
<1>2. \A i \in 1..Len(Tail(s)) : Tail(s)[i].then.kind = "save" => s[1].then.kind # "save"
  BY <1>1 DEF Turns
<1>3. \A i \in 1..Len(Tail(s)) : Tail(s)[i].then.kind = "load" => s[1].then.kind # "load"
  BY <1>1 DEF Turns
<1>4. \A i, j \in 1..Len(Tail(s)) : i + 1 = j + 1 => i = j
  BY <1>1
<1>5. Turns(Tail(s), l, sv)
  BY <1>1, <1>4 DEF Turns
<1>6. Head(s).then.kind = "save" => Head(s).then.id = sv
  BY <1>1 DEF Turns
<1> QED BY <1>1, <1>2, <1>3, <1>5, <1>6

(* Requests without a load, or without a save, may take any.               *)
LEMMA TurnsFree ==
    ASSUME NEW s, NEW l, NEW sv, Turns(s, l, sv), NEW l2, NEW sv2,
           l2 = l \/ \A i \in 1..Len(s) : s[i].then.kind # "load",
           sv2 = sv \/ \A i \in 1..Len(s) : s[i].then.kind # "save"
    PROVE  Turns(s, l2, sv2)
BY DEF Turns

LEMMA NoSave ==
    ASSUME Shapes, InTurn, saving = None
    PROVE  \A i \in 1..Len(requests) : requests[i].then.kind # "save"
BY Numbers DEF Shapes, InTurn, Turns, Good, Sound

LEMMA NoLoad ==
    ASSUME Shapes, InTurn, loading.read \/ loading.id = None
    PROVE  \A i \in 1..Len(requests) : requests[i].then.kind # "load"
<1>1. \A i \in 1..Len(requests) : requests[i] \in Request /\ requests[i].id \in DocIds
  <2>1. \A i \in 1..Len(requests) : requests[i] \in Request
    BY ElementOfSeq DEF Shapes, Good
  <2> QED BY <2>1 DEF Request
<1> QED BY <1>1, Numbers DEF InTurn, Turns

(* A plain request, or one that waits for a record to edit it.             *)
LEMMA QueueTurns ==
    ASSUME Shapes, NEW l, NEW sv, Turns(requests, l, sv),
           NEW id \in DocIds, NEW record \in Records, NEW now \in BOOLEAN,
           Queue(id, record, now)
    PROVE  Turns(requests', l, sv)
<1>1. CASE pending # None /\ pending.id # id
  <2> DEFINE t == Then("queue", id, record, now)
             q == Put(pending.id, pending.record, t)
  <2>1. requests' = Append(requests, q)
    BY <1>1 DEF Queue
  <2>2. t \in Follow /\ t.kind = "queue"
    BY ThenFacts, Plainly
  <2> HIDE DEF t
  <2>3. q \in Request /\ q.then = t
    BY <1>1, <2>2, PendingFacts, Makes
  <2> QED BY <2>1, <2>2, <2>3, TurnsPush DEF Shapes
<1>2. CASE ~(pending # None /\ pending.id # id)
  <2> DEFINE q == Put(id, record, NoThen)
  <2>1. requests' \in {requests, Append(requests, q)}
    BY <1>2 DEF Queue, Replace
  <2>2. q \in Request /\ q.then.kind = "none"
    BY Makes, Plainly
  <2> HIDE DEF q
  <2>3. Good(requests)
    BY DEF Shapes
  <2> QED BY <2>1, <2>2, <2>3, TurnsPush
<1> QED BY <1>1, <1>2

LEMMA FlushTurns ==
    ASSUME Shapes, NEW t \in Follow, t.id \in DocIds, FlushThenGet(t.id, t)
    PROVE  \E q \in Request : /\ requests' = Append(requests, q) /\ q.then = t
                              /\ pending' = None
                              /\ \/ pending = None /\ q.op = "get" /\ q.id = t.id
                                 \/ /\ pending # None /\ q.op = "put" /\ q.id = pending.id
                                    /\ q.record = pending.record
<1>1. CASE pending = None
  BY <1>1, Makes, RecordFacts DEF FlushThenGet
<1>2. CASE pending # None
  BY <1>2, Makes, PendingFacts DEF FlushThenGet
<1> QED BY <1>1, <1>2

LEMMA PutDoneTurns == Shapes /\ InTurn /\ PutDone => InTurn'
<1> SUFFICES ASSUME Shapes, InTurn, PutDone PROVE Turns(requests', loading, saving)
  BY DEF InTurn, PutDone
<1> DEFINE then == Head1.then
<1>1. /\ Answered /\ Head1.op = "put" /\ Good(Rest) /\ Head1 \in Request /\ Sound(Head1)
      /\ then \in Follow /\ then.kind \in Kinds
  BY HeadFacts DEF PutDone
<1>2. /\ Turns(Rest, loading, saving)
      /\ then.kind = "save" => /\ then.id = saving
                               /\ \A i \in 1..Len(Rest) : Rest[i].then.kind # "save"
  BY <1>1, TurnsPop DEF Shapes, InTurn, Answered, Rest, Head1
<1>3. CASE then.kind = "none"
  BY <1>2, <1>3 DEF PutDone
<1>4. CASE then.kind = "queue"
  <2>1. Replace(then.id, then.record, then.now, Rest)
    BY <1>4 DEF PutDone
  <2>2. then.id \in DocIds /\ then.record \in Records
    BY <1>1, <1>4, HeadFacts DEF Sound
  <2> HIDE DEF then
  <2>3. requests' \in {Rest, Append(Rest, Put(then.id, then.record, NoThen))}
    BY <2>1 DEF Replace
  <2>4. /\ Put(then.id, then.record, NoThen) \in Request
        /\ Put(then.id, then.record, NoThen).then.kind = "none"
    BY <2>2, Makes, Plainly
  <2> QED BY <1>1, <1>2, <2>3, <2>4, TurnsPush
<1>5. CASE then.kind \notin {"none", "queue"}
  <2> DEFINE q == Get(then.id, then)
  <2>1. requests' = Append(Rest, q)
    BY <1>5 DEF PutDone
  <2>2. then.kind \in Edits \cup {"save"} /\ then.id \in DocIds /\ then \in Follow
    BY <1>1, <1>5 DEF Sound, Kinds
  <2>3. q \in Request /\ q.then = then
    BY <2>2, Asks
  <2> HIDE DEF q, then
  <2>4. CASE then.kind = "save"
    BY <1>1, <1>2, <2>1, <2>3, <2>4, Pushes DEF Turns, Good
  <2>5. CASE then.kind \in Edits
    BY <1>1, <1>2, <2>1, <2>3, <2>5, TurnsPush, Plainly
  <2> QED BY <2>2, <2>4, <2>5
<1> QED BY <1>3, <1>4, <1>5

LEMMA AnswersTurns ==
    Shapes /\ InTurn /\ (EditRead \/ Deleted \/ Ignored \/ LoadRead \/ OpenFails \/ TimerFires)
        => InTurn'
<1> SUFFICES ASSUME Shapes, InTurn,
                    EditRead \/ Deleted \/ Ignored \/ LoadRead \/ OpenFails \/ TimerFires
             PROVE  Turns(requests', loading', saving')
  BY DEF InTurn
<1>0. Answered => /\ Good(Rest) /\ Turns(Rest, loading, saving)
                  /\ Head1.then.kind = "load" =>
                        \A i \in 1..Len(Rest) : Rest[i].then.kind # "load"
  BY HeadFacts, TurnsPop DEF Shapes, InTurn, Answered, Rest, Head1
<1>1. CASE EditRead
  <2> DEFINE old == disk[Head1.id]
             new == Merged(Head1.then.kind, old, Head1.then.record)
             q == Put(Head1.id, new, NoThen)
  <2>1. /\ Answered /\ Head1.then.kind \in Edits
        /\ UNCHANGED <<disk, pending, open, plan, loading, saving, remote, clock>>
        /\ requests' = IF old = None THEN Rest ELSE Append(Rest, q)
    BY <1>1 DEF EditRead
  <2>2. Head1.then.record \in Records /\ Head1.id \in DocIds /\ old \in Records \cup {None}
    BY <2>1, HeadFacts DEF Sound
  <2>3. old # None => q \in Request /\ q.then.kind = "none"
    <3>1. old # None => new \in Records
      BY <2>1, <2>2, RecordFacts
    <3> HIDE DEF new
    <3> QED BY <2>2, <3>1, Makes, Plainly
  <2> HIDE DEF old, q
  <2> QED BY <1>0, <2>1, <2>3, TurnsPush
<1>2. CASE Deleted \/ Ignored
  BY <1>0, <1>2 DEF Deleted, Ignored
<1>3. CASE LoadRead
  BY <1>0, <1>3, TurnsFree DEF LoadRead
<1>4. CASE OpenFails
  BY <1>4, NoLoad, TurnsFree DEF OpenFails, InTurn
<1>5. CASE TimerFires
  <2>1. /\ Put(pending.id, pending.record, NoThen) \in Request
        /\ Put(pending.id, pending.record, NoThen).then.kind = "none"
    BY <1>5, PendingFacts, Makes, Plainly DEF TimerFires
  <2> QED BY <1>5, <2>1, TurnsPush DEF TimerFires, Shapes, InTurn
<1> QED BY <1>1, <1>2, <1>3, <1>4, <1>5

LEMMA EditsTurns ==
    Shapes /\ InTurn /\ (\/ Stroke \/ SetCount \/ \E s \in Stamps : Undo(s)
                         \/ \E kind \in Flushing : EditMetadata(kind))
        => InTurn'
<1> SUFFICES ASSUME Shapes, InTurn,
                    \/ Stroke \/ SetCount \/ \E s \in Stamps : Undo(s)
                    \/ \E kind \in Flushing : EditMetadata(kind)
             PROVE  Turns(requests', loading, saving)
  BY DEF InTurn, Stroke, SetCount, Undo, EditMetadata
<1>0. /\ open \in DocIds /\ plan[open] \in Records /\ clock \in Stamps /\ clock < MaxStamp
      /\ Turns(requests, loading, saving) /\ Good(requests)
  BY DEF Stroke, SetCount, Undo, EditMetadata, CanEdit, Shapes, InTurn
<1>1. CASE Stroke
  <2> DEFINE new == [plan[open] EXCEPT !.rows = @ \cup {Fresh}, !.dirty = TRUE]
  <2>1. Plain(new) \in Records /\ Queue(open, Plain(new), FALSE)
    BY <1>0, <1>1, HeldFacts, RecordFacts DEF Stroke
  <2> HIDE DEF new
  <2> QED BY <1>0, <2>1, QueueTurns
<1>2. ASSUME NEW s \in Stamps, Undo(s) PROVE Turns(requests', loading, saving)
  <2> DEFINE new == [plan[open] EXCEPT !.rows = @ \ {s}, !.dirty = TRUE]
  <2>1. Plain(new) \in Records /\ Queue(open, Plain(new), TRUE)
    BY <1>0, <1>2, HeldFacts, RecordFacts DEF Undo
  <2> HIDE DEF new
  <2> QED BY <1>0, <2>1, QueueTurns
<1>3. CASE SetCount
  <2> DEFINE new == [plan[open] EXCEPT !.rest = Fresh, !.dirty = TRUE]
             t == Then("count", open, new, FALSE)
             q == Get(open, t)
  <2>1. new \in Records /\ requests' = Append(requests, q)
    BY <1>0, <1>3, HeldFacts DEF SetCount
  <2> HIDE DEF new
  <2>2. t \in Follow /\ t.kind = "count"
    BY <1>0, <2>1, Plainly DEF Then, Follow
  <2> HIDE DEF t
  <2>3. q \in Request /\ q.then = t
    BY <1>0, <2>1, <2>2, Makes
  <2> HIDE DEF q
  <2> QED BY <1>0, <2>1, <2>2, <2>3, TurnsPush
<1>4. ASSUME NEW kind \in Flushing, EditMetadata(kind) PROVE Turns(requests', loading, saving)
  <2> DEFINE new == CASE kind = "name"     -> [plan[open] EXCEPT !.name = Fresh]
                      [] kind = "colors"   -> [plan[open] EXCEPT !.colors = Fresh]
                      [] kind = "password" -> [plan[open] EXCEPT !.password = Fresh]
                      [] kind = "document" -> [plan[open] EXCEPT !.rest = Fresh, !.dirty = TRUE]
             t == Then(kind, open, new, FALSE)
  <2>1. new \in Records /\ FlushThenGet(open, t)
    BY <1>0, <1>4, HeldFacts DEF EditMetadata, Flushing
  <2> HIDE DEF new
  <2>2. t \in Follow /\ t.kind = kind /\ t.id = open
    BY <1>0, <2>1, Plainly DEF Then, Follow
  <2> HIDE DEF t
  <2>3. PICK q \in Request : requests' = Append(requests, q) /\ q.then = t
    BY <1>0, <2>1, <2>2, FlushTurns
  <2> QED BY <1>0, <2>2, <2>3, TurnsPush, Plainly
<1> QED BY <1>1, <1>2, <1>3, <1>4

LEMMA RoutesTurns ==
    Shapes /\ InTurn /\ (\/ \E d \in DocIds : Delete(d) \/ StartOpen(d)
                         \/ OpenOnline \/ OpenOffline)
        => InTurn'
<1> SUFFICES ASSUME Shapes, InTurn,
                    \/ \E d \in DocIds : Delete(d) \/ StartOpen(d)
                    \/ OpenOnline \/ OpenOffline
             PROVE  Turns(requests', loading', saving')
  BY DEF InTurn
<1>0. Turns(requests, loading, saving) /\ Good(requests)
  BY DEF Shapes, InTurn
<1>1. ASSUME NEW d \in DocIds, Delete(d) PROVE Turns(requests', loading', saving')
  <2> DEFINE q == [op |-> "delete", id |-> d, record |-> None, then |-> NoThen]
  <2>1. q \in Request /\ q.then.kind = "none"
    BY Plainly DEF Request
  <2>2. requests' = Append(requests, q) /\ loading' = loading /\ saving' = saving
    BY <1>1 DEF Delete
  <2> HIDE DEF q
  <2> QED BY <1>0, <2>1, <2>2, TurnsPush
<1>2. ASSUME NEW d \in DocIds, StartOpen(d) PROVE Turns(requests', loading', saving')
  <2> DEFINE t == Then("load", d, None, FALSE)
             q == Get(d, t)
  <2>1. /\ requests' = Append(Stopped(requests), q) /\ loading' = [Idle EXCEPT !.id = d]
        /\ saving' = saving
    BY <1>2 DEF StartOpen, Stopped
  <2>2. t \in Follow /\ t.kind = "load"
    BY Plainly DEF Then, Follow
  <2> HIDE DEF t
  <2>3. q \in Request /\ q.then = t /\ q.id = d
    BY <2>2, Makes, RecordFacts
  <2> HIDE DEF q
  <2>4. /\ Good(Stopped(requests)) /\ Len(Stopped(requests)) = Len(requests)
        /\ \A i \in 1..Len(requests) :
              \/ requests[i].then.kind # "load" /\ Stopped(requests)[i] = requests[i]
              \/ Stopped(requests)[i].then.kind = "none"
    BY <1>0, CancelFacts, Plainly
  <2>5. /\ \A i \in 1..Len(requests) : Stopped(requests)[i].then.kind # "load"
        /\ Turns(Stopped(requests), loading, saving)
    BY <1>0, <2>4 DEF Turns
  <2>6. loading'.id = d /\ loading'.read = FALSE
    BY <2>1 DEF Idle
  <2> QED BY <2>1, <2>2, <2>3, <2>4, <2>5, <2>6, Pushes DEF Turns, Good
<1>3. CASE OpenOnline \/ OpenOffline
  <2>1. PICK record \in Records : Show(record) /\ loading.read /\ loading.id \in DocIds
    BY <1>3, Shown
  <2>2. Turns(requests, loading', saving')
    BY <1>0, <2>1, NoLoad, TurnsFree DEF Show
  <2>3. Plain(record) \in Records /\ Queue(loading.id, Plain(record), TRUE)
    BY <2>1, RecordFacts DEF Show
  <2> QED BY <2>1, <2>2, <2>3, QueueTurns
<1> QED BY <1>1, <1>2, <1>3

LEMMA SavesTurns ==
    Shapes /\ InTurn /\ (StartSave \/ \E b \in BOOLEAN : SaveRead(b) \/ Exit(b)) => InTurn'
<1> SUFFICES ASSUME Shapes, InTurn, StartSave \/ \E b \in BOOLEAN : SaveRead(b) \/ Exit(b)
             PROVE  Turns(requests', loading', saving')
  BY DEF InTurn
<1>0. Turns(requests, loading, saving) /\ Good(requests)
  BY DEF Shapes, InTurn
<1>1. CASE StartSave
  <2> DEFINE t == Then("save", open, None, FALSE)
  <2>1. /\ FlushThenGet(open, t) /\ saving' = open /\ open \in DocIds /\ saving = None
        /\ loading' = loading
    BY <1>1 DEF StartSave, Shapes
  <2>2. t \in Follow /\ t.kind = "save" /\ t.id = open
    BY <2>1, Plainly DEF Then, Follow
  <2> HIDE DEF t
  <2>3. PICK q \in Request : requests' = Append(requests, q) /\ q.then = t
    BY <2>1, <2>2, FlushTurns
  <2>4. \A i \in 1..Len(requests) : requests[i].then.kind # "save"
    BY <2>1, NoSave
  <2> QED BY <1>0, <2>1, <2>2, <2>3, <2>4, Pushes DEF Turns, Good
<1>2. ASSUME NEW b \in BOOLEAN, SaveRead(b) PROVE Turns(requests', loading', saving')
  <2> DEFINE saved == Plain([plan[open] EXCEPT !.dirty = FALSE])
  <2>1. /\ Answered /\ Head1.then.kind = "save" /\ Head1.id = open /\ open \in DocIds
        /\ saved \in Records /\ Good(Rest) /\ loading' = loading
        /\ requests' \in {Rest, Append(Rest, Put(open, saved, NoThen))}
    BY <1>2, SavingFacts, HeadFacts DEF SaveRead
  <2> HIDE DEF saved
  <2>2. /\ Put(open, saved, NoThen) \in Request
        /\ Put(open, saved, NoThen).then.kind = "none"
    BY <2>1, Makes, Plainly
  <2>3. Turns(Rest, loading', saving')
    BY <1>0, <2>1, TurnsPop, TurnsFree DEF Answered, Rest, Head1
  <2> QED BY <2>1, <2>2, <2>3, TurnsPush
<1>3. ASSUME NEW b \in BOOLEAN, Exit(b) PROVE Turns(requests', loading', saving')
  <2>1. requests' = <<>> /\ Len(<<>>) = 0
    BY <1>3, EmptySeq DEF Exit
  <2> QED BY <2>1 DEF Turns
<1> QED BY <1>1, <1>2, <1>3

LEMMA TurnsStep == Shapes /\ InTurn /\ [Next]_vars => InTurn'
<1> SUFFICES ASSUME Shapes, InTurn, [Next]_vars PROVE InTurn'
  OBVIOUS
<1>1. CASE UNCHANGED vars
  BY <1>1 DEF vars, InTurn
<1> QED BY <1>1, PutDoneTurns, AnswersTurns, EditsTurns, RoutesTurns, SavesTurns DEF Next

(* Every part of the store keeps its type, whatever coincides: a request   *)
(* names a document, the document shown and the one saved are held by the  *)
(* tab, and what waits to be written is a whole record.                    *)
THEOREM TypeCorrect == Spec => []TypeOK
<1>1. Init => Shapes /\ InTurn
  BY InitShapes
<1>2. Shapes /\ InTurn /\ [Next]_vars => Shapes' /\ InTurn'
  BY ShapesStep, TurnsStep
<1>3. Shapes => TypeOK
  <2> SUFFICES ASSUME Shapes PROVE TypeOK
    OBVIOUS
  <2>1. \A i \in 1..Len(requests) : requests[i] \in Request
    BY ElementOfSeq DEF Shapes, Good
  <2>2. \A i \in 1..Len(requests) :
           /\ requests[i].op \in {"put", "get", "delete"} /\ requests[i].id \in DocIds
           /\ requests[i].record \in Records \cup {None}
    BY <2>1 DEF Request
  <2> QED BY <2>2, PendingFacts DEF Shapes, TypeOK
<1> QED BY <1>1, <1>2, <1>3, PTL DEF Spec

-----------------------------------------------------------------------------
(* Order.  Without the coincidences of Calm a request that something waits *)
(* for (an edit, a queued update, a save) is the last that was made.       *)

Calm == {"overlap", "burst", "count"} \cap Allowed = {}

Special(t) == t.kind \in Edits \cup {"queue", "save"}

Thens(s) == {s[i].then : i \in 1..Len(s)}

OnlyLast(s) == \A i \in 1..Len(s) : Special(s[i].then) => i = Len(s)

Tidy ==
    /\ OnlyLast(requests)
    /\ \A t \in Thens(requests) :
          t.kind \in Edits \cup {"queue"} => loading = Idle /\ saving = None /\ t.id = open
    /\ \A t \in Thens(requests) : t.kind = "queue" => pending = None /\ t.now
    /\ pending # None => pending.id = open
    /\ saving # None => pending = None

Changes(q, d) == q.op # "get" /\ q.id = d

(* What a document's load will read is what it was when nothing that was   *)
(* asked before is left: nothing changes it after that.                    *)
Loads ==
    loading.id # None =>
        /\ loading.id # open
        /\ \A i, j \in 1..Len(requests) :
              requests[i].then.kind = "load" /\ Changes(requests[j], loading.id) => j < i
        /\ loading.read => /\ loading.record = disk[loading.id]
                           /\ \A j \in 1..Len(requests) : ~Changes(requests[j], loading.id)

LEMMA ThensPush ==
    ASSUME NEW s, Good(s), NEW q \in Request
    PROVE  Thens(Append(s, q)) = Thens(s) \cup {q.then}
<1>1. \A i \in 1..Len(s) : i \in 1..Len(Append(s, q)) /\ Append(s, q)[i] = s[i]
  BY Pushes DEF Good
<1>2. Len(s) + 1 \in 1..Len(Append(s, q)) /\ Append(s, q)[Len(s) + 1] = q
  BY Pushes DEF Good
<1>3. \A i \in 1..Len(Append(s, q)) : i \in 1..Len(s) \/ i = Len(s) + 1
  BY Pushes DEF Good
<1>4. \A t \in Thens(s) : t \in Thens(Append(s, q))
  BY <1>1 DEF Thens
<1>5. q.then \in Thens(Append(s, q))
  BY <1>2 DEF Thens
<1>6. \A t \in Thens(Append(s, q)) : t \in Thens(s) \cup {q.then}
  BY <1>1, <1>2, <1>3 DEF Thens
<1> QED BY <1>4, <1>5, <1>6

LEMMA ThensPop ==
    ASSUME NEW s, Good(s), s # <<>>
    PROVE  Thens(s) = Thens(Tail(s)) \cup {Head(s).then}
<1>1. \A i \in 1..Len(Tail(s)) : i + 1 \in 1..Len(s) /\ Tail(s)[i] = s[i + 1]
  BY Pops DEF Good
<1>2. 1 \in 1..Len(s) /\ Head(s) = s[1]
  BY Pops DEF Good
<1>3. \A i \in 1..Len(s) : i = 1 \/ \E j \in 1..Len(Tail(s)) : j + 1 = i
  <2> TAKE i \in 1..Len(s)
  <2>1. i = 1 \/ i - 1 \in 1..Len(Tail(s))
    BY Pops DEF Good
  <2>2. i = i - 1 + 1
    OBVIOUS
  <2> QED BY <2>1, <2>2
<1>4. \A t \in Thens(Tail(s)) : t \in Thens(s)
  BY <1>1 DEF Thens
<1>5. Head(s).then \in Thens(s)
  BY <1>2 DEF Thens
<1>6. \A t \in Thens(s) : t \in Thens(Tail(s)) \cup {Head(s).then}
  <2> TAKE t \in Thens(s)
  <2>1. PICK i \in 1..Len(s) : t = s[i].then
    BY DEF Thens
  <2>2. CASE i = 1
    BY <1>2, <2>1, <2>2
  <2>3. ASSUME NEW j \in 1..Len(Tail(s)), j + 1 = i PROVE t \in Thens(Tail(s))
    BY <1>1, <2>1, <2>3 DEF Thens
  <2> QED BY <1>3, <2>2, <2>3
<1> QED BY <1>4, <1>5, <1>6

LEMMA ThensStopped ==
    ASSUME NEW s, Good(s)
    PROVE  /\ \A t \in Thens(s) : t.kind # "load" => t \in Thens(Stopped(s))
           /\ \A t \in Thens(Stopped(s)) : t.kind # "none" => t \in Thens(s) /\ t.kind # "load"
<1>1. /\ Len(Stopped(s)) = Len(s)
      /\ \A i \in 1..Len(s) : \/ s[i].then.kind # "load" /\ Stopped(s)[i] = s[i]
                              \/ s[i].then.kind = "load" /\ Stopped(s)[i].then = NoThen
  BY CancelFacts
<1> QED BY <1>1, Plainly DEF Thens

LEMMA ThensFacts ==
    ASSUME NEW s, Good(s)
    PROVE  /\ \A t \in Thens(s) : /\ t \in Follow /\ t.kind \in Kinds
                                  /\ t.id \in DocIds \cup {None} /\ t.now \in BOOLEAN
                                  /\ t.record \in Records \cup {None}
                                  /\ Special(t) => t.id \in DocIds
                                  /\ t.kind \in Edits \cup {"queue"} => t.record \in Records
           /\ Thens(<<>>) = {}
<1>1. \A i \in 1..Len(s) : s[i] \in Request /\ Sound(s[i])
  BY ElementOfSeq DEF Good
<1>2. \A i \in 1..Len(s) : s[i].then \in Follow
  BY <1>1 DEF Request
<1>3. \A t \in Follow : /\ t.kind \in Kinds /\ t.now \in BOOLEAN
                        /\ t.id \in DocIds \cup {None} /\ t.record \in Records \cup {None}
  BY DEF Follow
<1>4. \A i \in 1..Len(s) :
         /\ Special(s[i].then) => s[i].then.id \in DocIds
         /\ s[i].then.kind \in Edits \cup {"queue"} => s[i].then.record # None
  BY <1>1 DEF Sound, Special
<1>5. Len(<<>>) = 0
  BY EmptySeq
<1> QED BY <1>2, <1>3, <1>4, <1>5 DEF Thens

LEMMA OnlyLastPush ==
    ASSUME NEW s, Good(s), NEW q \in Request, \A t \in Thens(s) : ~Special(t)
    PROVE  OnlyLast(Append(s, q))
<1>1. \A i \in 1..Len(s) : ~Special(s[i].then)
  BY DEF Thens
<1> QED BY <1>1, Pushes DEF OnlyLast, Good

LEMMA LonePush ==
    ASSUME NEW s, Good(s), Thens(s) = {}, NEW q \in Request
    PROVE  OnlyLast(Append(s, q)) /\ Thens(Append(s, q)) = {q.then}
<1>1. OnlyLast(Append(s, q))
  BY OnlyLastPush
<1>2. Thens(Append(s, q)) = Thens(s) \cup {q.then}
  BY ThensPush
<1> QED BY <1>1, <1>2

LEMMA OnlyLastPop ==
    ASSUME NEW s, Good(s), s # <<>>, OnlyLast(s)
    PROVE  /\ OnlyLast(Tail(s))
           /\ Special(Head(s).then) => Len(s) = 1 /\ Tail(s) = <<>>
<1>1. /\ Head(s) = s[1] /\ 1 \in 1..Len(s) /\ Len(s) \in Nat
      /\ Len(Tail(s)) \in Nat /\ Len(s) = Len(Tail(s)) + 1
      /\ \A i \in 1..Len(Tail(s)) : i + 1 \in 1..Len(s) /\ Tail(s)[i] = s[i + 1]
  BY Pops DEF Good
<1>2. \A i \in 1..Len(Tail(s)) : i + 1 = Len(s) => i = Len(Tail(s))
  <2> DEFINE m == Len(Tail(s))
             n == Len(s)
  <2>1. m \in Nat /\ n = m + 1
    BY <1>1
  <2> HIDE DEF m, n
  <2>2. \A i \in 1..m : i + 1 = n => i = m
    BY <2>1
  <2> QED BY <2>2 DEF m, n
<1>3. OnlyLast(Tail(s))
  BY <1>1, <1>2 DEF OnlyLast
<1>4. Special(Head(s).then) => Len(s) = 1
  BY <1>1 DEF OnlyLast
<1> QED BY <1>3, <1>4, Lone DEF Good

(* Nothing waits for a request when the user's next step may be taken.     *)
LEMMA Quiet ==
    ASSUME Calm, Shapes, InTurn, Alone, saving = None
    PROVE  \A t \in Thens(requests) : t.kind \in {"none", "load"}
<1>1. ~Reading /\ ~Flushed
  BY DEF Calm, Alone
<1>2. \A i \in 1..Len(requests) : requests[i].then.kind # "save"
  BY NoSave
<1>3. Good(requests)
  BY DEF Shapes
<1>4. \A i \in 1..Len(requests) : requests[i].then.kind \in {"none", "load"}
  <2> TAKE i \in 1..Len(requests)
  <2>1. requests[i].then \in Thens(requests)
    BY DEF Thens
  <2>2. requests[i].then.kind \in Kinds
    BY <1>3, <2>1, ThensFacts
  <2> QED BY <1>1, <1>2, <2>2 DEF Kinds, Reading, Flushed
<1> QED BY <1>4 DEF Thens

(* What an edit asks for.                                                  *)
LEMMA Edited ==
    ASSUME Shapes, SetCount \/ \E kind \in Flushing : EditMetadata(kind)
    PROVE  /\ CanEdit /\ Alone /\ open \in DocIds /\ plan[open] \in Records
           /\ \E held \in Records, t \in Follow, q \in Request :
                 /\ plan' = [plan EXCEPT ![open] = held] /\ held.rows = plan[open].rows
                 /\ t.kind \in Edits /\ t.id = open /\ t.record = held
                 /\ requests' = Append(requests, q) /\ q.then = t
                 /\ \/ /\ pending = None \/ SetCount
                       /\ pending' = pending /\ q.op = "get" /\ q.id = open
                    \/ /\ pending # None /\ pending' = None /\ q.op = "put" /\ q.id = pending.id
                       /\ q.record = pending.record
                 /\ \A r \in Records : Content(r) = Content(plan[open]) =>
                       Content(Merged(t.kind, r, held)) = Content(held)
           /\ server' \in [DocIds -> Records]
           /\ \A d \in DocIds : server'[d].rows = server[d].rows
           /\ SetCount /\ pending # None => "count" \in Allowed
           /\ UNCHANGED <<disk, open, loading, saving, undone>>
<1>0. /\ CanEdit /\ Alone /\ open \in DocIds /\ plan[open] \in Records
      /\ clock \in Stamps /\ clock < MaxStamp /\ server[open] \in Records
      /\ SetCount /\ pending # None => "count" \in Allowed
      /\ UNCHANGED <<disk, open, loading, saving, undone>>
  BY DEF SetCount, EditMetadata, CanEdit, Shapes, remote
<1>1. Fresh \in Stamps
  BY <1>0, HeldFacts
<1>2. ASSUME SetCount
      PROVE  \E held \in Records, t \in Follow, q \in Request :
                 /\ plan' = [plan EXCEPT ![open] = held] /\ held.rows = plan[open].rows
                 /\ t.kind \in Edits /\ t.id = open /\ t.record = held
                 /\ requests' = Append(requests, q) /\ q.then = t
                 /\ pending' = pending /\ q.op = "get" /\ q.id = open
                 /\ \A r \in Records : Content(r) = Content(plan[open]) =>
                       Content(Merged(t.kind, r, held)) = Content(held)
  <2> DEFINE new == [plan[open] EXCEPT !.rest = Fresh, !.dirty = TRUE]
             t == Then("count", open, new, FALSE)
             q == Get(open, t)
  <2>1. new \in Records /\ new.rows = plan[open].rows
    BY <1>0, <1>1 DEF Records
  <2>2. /\ plan' = [plan EXCEPT ![open] = new] /\ requests' = Append(requests, q)
        /\ pending' = pending /\ server' = server
    BY <1>2 DEF SetCount, Hold, remote
  <2>3. \A r \in Records : Content(r) = Content(plan[open]) =>
           Content(Merged("count", r, new)) = Content(new)
    BY <1>0, <1>1 DEF Merged, Content, Plain, Records
  <2> HIDE DEF new
  <2>4. t \in Follow /\ t.kind = "count" /\ t.id = open /\ t.record = new
    BY <1>0, <2>1, Plainly DEF Then, Follow
  <2> HIDE DEF t
  <2>5. q \in Request /\ q.op = "get" /\ q.id = open /\ q.then = t
    BY <1>0, <2>4, Asks
  <2> HIDE DEF q
  <2>6. \A r \in Records : Content(r) = Content(plan[open]) =>
           Content(Merged(t.kind, r, new)) = Content(new)
    BY <2>3, <2>4
  <2>7. t.kind \in Edits
    BY <2>4, Plainly
  <2> QED BY <2>1, <2>2, <2>4, <2>5, <2>6, <2>7
<1>3. ASSUME NEW kind \in Flushing, EditMetadata(kind)
      PROVE  \E held \in Records, t \in Follow, q \in Request :
                 /\ plan' = [plan EXCEPT ![open] = held] /\ held.rows = plan[open].rows
                 /\ t.kind \in Edits /\ t.id = open /\ t.record = held
                 /\ requests' = Append(requests, q) /\ q.then = t
                 /\ \/ /\ pending = None
                       /\ pending' = pending /\ q.op = "get" /\ q.id = open
                    \/ /\ pending # None /\ pending' = None /\ q.op = "put" /\ q.id = pending.id
                       /\ q.record = pending.record
                 /\ \A r \in Records : Content(r) = Content(plan[open]) =>
                       Content(Merged(t.kind, r, held)) = Content(held)
  <2> DEFINE new == CASE kind = "name"     -> [plan[open] EXCEPT !.name = Fresh]
                      [] kind = "colors"   -> [plan[open] EXCEPT !.colors = Fresh]
                      [] kind = "password" -> [plan[open] EXCEPT !.password = Fresh]
                      [] kind = "document" -> [plan[open] EXCEPT !.rest = Fresh, !.dirty = TRUE]
             t == Then(kind, open, new, FALSE)
  <2>1. new \in Records /\ new.rows = plan[open].rows
    <3>1. CASE kind = "name"
      BY <1>0, <1>1, <3>1 DEF Records
    <3>2. CASE kind = "colors"
      BY <1>0, <1>1, <3>2 DEF Records
    <3>3. CASE kind = "password"
      BY <1>0, <1>1, <3>3 DEF Records
    <3>4. CASE kind = "document"
      BY <1>0, <1>1, <3>4 DEF Records
    <3> QED BY <3>1, <3>2, <3>3, <3>4 DEF Flushing
  <2>2. plan' = [plan EXCEPT ![open] = new] /\ FlushThenGet(open, t)
    BY <1>3 DEF EditMetadata, Hold
  <2>3. \A r \in Records : Content(r) = Content(plan[open]) =>
           Content(Merged(kind, r, new)) = Content(new)
    <3> TAKE r \in Records
    <3> HAVE Content(r) = Content(plan[open])
    <3>1. CASE kind = "name"
      BY <1>0, <1>1, <3>1 DEF Merged, Content, Plain, Records
    <3>2. CASE kind = "colors"
      BY <1>0, <1>1, <3>2 DEF Merged, Content, Records
    <3>3. CASE kind = "password"
      BY <1>0, <1>1, <3>3 DEF Merged, Content, Records
    <3>4. CASE kind = "document"
      BY <1>0, <1>1, <3>4 DEF Merged, Content, Records
    <3> QED BY <3>1, <3>2, <3>3, <3>4 DEF Flushing
  <2> HIDE DEF new
  <2>4. t \in Follow /\ t.kind = kind /\ t.id = open /\ t.record = new
    BY <1>0, <2>1, Plainly DEF Then, Follow
  <2> HIDE DEF t
  <2>5. PICK q \in Request :
           /\ requests' = Append(requests, q) /\ q.then = t /\ pending' = None
           /\ \/ pending = None /\ q.op = "get" /\ q.id = t.id
              \/ /\ pending # None /\ q.op = "put" /\ q.id = pending.id
                 /\ q.record = pending.record
    BY <1>0, <2>2, <2>4, FlushTurns
  <2> QED BY <2>1, <2>2, <2>3, <2>4, <2>5, Plainly
<1>4. ASSUME NEW kind \in Flushing, EditMetadata(kind)
      PROVE  /\ server' \in [DocIds -> Records]
             /\ \A d \in DocIds : server'[d].rows = server[d].rows
  <2>1. /\ [server[open] EXCEPT !.name = Fresh] \in Records
        /\ [server[open] EXCEPT !.name = Fresh].rows = server[open].rows
    BY <1>0, <1>1 DEF Records
  <2>2. server' = server \/ server' = [server EXCEPT ![open] = [server[open] EXCEPT !.name = Fresh]]
    BY <1>4 DEF EditMetadata
  <2> QED BY <1>0, <2>1, <2>2 DEF Shapes
<1>5. SetCount => server' = server
  BY DEF SetCount, remote
<1> QED BY <1>0, <1>2, <1>3, <1>4, <1>5 DEF Shapes

LEMMA InitTidy == Init => Tidy /\ Loads
<1> SUFFICES ASSUME Init PROVE Tidy /\ Loads
  OBVIOUS
<1>1. requests = <<>> /\ Len(<<>>) = 0 /\ pending = None /\ saving = None /\ loading.id = None
  BY EmptySeq DEF Init, Idle
<1> QED BY <1>1 DEF Tidy, Loads, OnlyLast, Thens

(* The queue after an answer, of which nothing or one request is left.     *)
LEMMA AfterHead ==
    ASSUME Shapes, InTurn, Tidy, Answered
    PROVE  /\ requests # <<>> /\ Good(requests) /\ Good(Rest) /\ OnlyLast(Rest)
           /\ Head1 = requests[1] /\ 1 \in 1..Len(requests)
           /\ Thens(requests) = Thens(Rest) \cup {Head1.then}
           /\ Special(Head1.then) => Len(requests) = 1 /\ Rest = <<>> /\ Thens(Rest) = {}
           /\ Len(Rest) \in Nat
           /\ \A i \in 1..Len(Rest) : i + 1 \in 1..Len(requests) /\ Rest[i] = requests[i + 1]
<1>1. requests # <<>> /\ Good(requests) /\ OnlyLast(requests)
  BY DEF Shapes, Answered, Tidy
<1> QED BY <1>1, GoodPop, Pops, OnlyLastPop, ThensPop, ThensFacts DEF Head1, Rest, Good

(* An answer leaves the requests after it, or one in their place.          *)
LEMMA PutDoneTidy ==
    ASSUME Shapes, InTurn, Tidy, PutDone
    PROVE  /\ \/ /\ Head1.then.kind = "none" /\ requests' = Rest /\ pending' = pending
              \/ /\ Head1.then.kind = "queue" /\ pending = None /\ pending' = None
                 /\ Rest = <<>> /\ Head1.then.id = open /\ Head1.then.record \in Records
                 /\ requests' = Append(Rest, Put(open, Head1.then.record, NoThen))
              \/ /\ Head1.then.kind \in Edits \cup {"save"} /\ pending' = pending
                 /\ Rest = <<>> /\ Head1.then.id \in DocIds
                 /\ requests' = Append(Rest, Get(Head1.then.id, Head1.then))
           /\ Tidy'
<1> DEFINE then == Head1.then
<1>1. /\ Answered /\ Head1.op = "put" /\ Sound(Head1) /\ then \in Follow /\ then.kind \in Kinds
      /\ UNCHANGED <<open, loading, saving>>
  BY HeadFacts DEF PutDone
<1>2. /\ Good(Rest) /\ OnlyLast(Rest) /\ Thens(requests) = Thens(Rest) \cup {then}
      /\ Special(then) => Rest = <<>> /\ Thens(Rest) = {}
  BY <1>1, AfterHead
<1>3. then \in Thens(requests)
  BY <1>2
<1>4. CASE then.kind = "none"
  <2>1. requests' = Rest /\ pending' = pending
    BY <1>4 DEF PutDone
  <2>2. Tidy'
    BY <1>1, <1>2, <2>1 DEF Tidy
  <2> QED BY <1>4, <2>1, <2>2
<1>5. CASE then.kind = "queue"
  <2>1. Replace(then.id, then.record, then.now, Rest)
    BY <1>5 DEF PutDone
  <2>2. /\ pending = None /\ then.now /\ then.id = open /\ Rest = <<>> /\ Thens(Rest) = {}
        /\ then.id \in DocIds /\ then.record \in Records
    BY <1>1, <1>2, <1>3, <1>5, HeadFacts DEF Tidy, Special, Sound
  <2> DEFINE q == Put(then.id, then.record, NoThen)
  <2>3. pending' = None /\ requests' = Append(Rest, q)
    BY <2>1, <2>2 DEF Replace
  <2>4. q \in Request /\ q.then.kind = "none"
    BY <2>2, Makes, Plainly
  <2> HIDE DEF q, then
  <2>5. OnlyLast(requests') /\ Thens(requests') = {q.then}
    BY <1>2, <2>2, <2>3, <2>4, LonePush
  <2>6. Tidy'
    BY <1>1, <2>2, <2>3, <2>4, <2>5, Plainly DEF Tidy
  <2> QED BY <1>5, <2>2, <2>3, <2>6 DEF then, q
<1>6. CASE then.kind \notin {"none", "queue"}
  <2> DEFINE q == Get(then.id, then)
  <2>1. requests' = Append(Rest, q) /\ pending' = pending
    BY <1>6 DEF PutDone
  <2>2. then.kind \in Edits \cup {"save"} /\ then.id \in DocIds
    BY <1>1, <1>6 DEF Sound, Kinds
  <2>3. Rest = <<>> /\ Thens(Rest) = {}
    BY <1>2, <2>2 DEF Special
  <2>4. q \in Request /\ q.then = then
    BY <1>1, <2>2, Asks
  <2> HIDE DEF q, then
  <2>5. OnlyLast(requests') /\ Thens(requests') = {then}
    BY <1>2, <2>1, <2>3, <2>4, OnlyLastPush, ThensPush
  <2>6. Tidy'
    BY <1>1, <1>3, <2>1, <2>5 DEF Tidy
  <2> QED BY <2>1, <2>2, <2>3, <2>6 DEF then, q
<1> QED BY <1>4, <1>5, <1>6

(* A read-modify-write puts its record, if there was one.                  *)
LEMMA EditReadTidy ==
    ASSUME Shapes, InTurn, Tidy, EditRead
    PROVE  /\ Answered /\ Head1.op = "get" /\ Head1.id = open /\ open \in DocIds
           /\ Head1.then.id = open /\ Head1.then.kind \in Edits
           /\ Head1.then.record \in Records /\ Rest = <<>> /\ Thens(Rest) = {}
           /\ UNCHANGED <<disk, pending, open, plan, loading, saving, remote, clock>>
           /\ loading = Idle /\ saving = None
           /\ \/ disk[open] = None /\ requests' = Rest
              \/ /\ disk[open] \in Records
                 /\ Merged(Head1.then.kind, disk[open], Head1.then.record) \in Records
                 /\ requests' = Append(Rest, Put(open,
                       Merged(Head1.then.kind, disk[open], Head1.then.record), NoThen))
           /\ Tidy'
<1> DEFINE then == Head1.then
           new == Merged(then.kind, disk[open], then.record)
           q == Put(open, new, NoThen)
<1>1. /\ Answered /\ Head1.op = "get" /\ then.kind \in Edits /\ Sound(Head1)
      /\ UNCHANGED <<disk, pending, open, plan, loading, saving, remote, clock>>
      /\ requests' = IF disk[Head1.id] = None THEN Rest
                     ELSE Append(Rest, Put(Head1.id, Merged(then.kind, disk[Head1.id],
                                                            then.record), NoThen))
  BY HeadFacts DEF EditRead
<1>2. /\ Good(Rest) /\ OnlyLast(Rest) /\ Thens(requests) = Thens(Rest) \cup {then}
      /\ Rest = <<>> /\ Thens(Rest) = {}
  BY <1>1, AfterHead DEF Special
<1>3. /\ Head1.id = then.id /\ then.id = open /\ open \in DocIds /\ then.record \in Records
      /\ loading = Idle /\ saving = None /\ disk[open] \in Records \cup {None}
  BY <1>1, <1>2, HeadFacts DEF Tidy, Sound
<1>4. requests' = IF disk[open] = None THEN Rest ELSE Append(Rest, q)
  BY <1>1, <1>3
<1>5. disk[open] # None => new \in Records
  BY <1>1, <1>3, RecordFacts
<1> HIDE DEF new
<1>6. disk[open] # None => q \in Request /\ q.then.kind = "none"
  BY <1>3, <1>5, Makes, Plainly
<1> HIDE DEF q
<1>7. CASE disk[open] = None
  <2>1. requests' = Rest
    BY <1>4, <1>7
  <2>2. Tidy'
    BY <1>1, <1>2, <2>1 DEF Tidy
  <2> QED BY <1>1, <1>2, <1>3, <1>7, <2>1, <2>2
<1>8. CASE disk[open] # None
  <2>1. requests' = Append(Rest, q) /\ q \in Request /\ q.then.kind = "none"
    BY <1>4, <1>6, <1>8
  <2>2. OnlyLast(requests') /\ Thens(requests') = {q.then}
    BY <1>2, <2>1, LonePush
  <2>3. Tidy'
    BY <1>1, <2>1, <2>2, Plainly DEF Tidy
  <2> QED BY <1>1, <1>2, <1>3, <1>5, <1>8, <2>1, <2>3 DEF q, new
<1> QED BY <1>7, <1>8

LEMMA PopTidy ==
    ASSUME Shapes, InTurn, Tidy, Deleted \/ Ignored \/ LoadRead
    PROVE  /\ Answered /\ requests' = Rest /\ ~Special(Head1.then)
           /\ UNCHANGED <<pending, open, plan, saving, remote, clock>>
           /\ Tidy'
<1>1. /\ Answered /\ requests' = Rest /\ UNCHANGED <<pending, open, plan, saving, remote, clock>>
      /\ LoadRead \/ UNCHANGED loading
  BY DEF Deleted, Ignored, LoadRead
<1>2. Head1.then.kind \in {"none", "load"} /\ (LoadRead => Head1.then.kind = "load")
  BY HeadFacts DEF Deleted, Ignored, LoadRead, Sound
<1>3. /\ OnlyLast(Rest) /\ Thens(requests) = Thens(Rest) \cup {Head1.then} /\ Good(requests)
  BY <1>1, AfterHead
<1>4. LoadRead => loading # Idle
  BY HeadFacts, Numbers DEF LoadRead, InTurn, Turns, Idle
<1>5. Tidy'
  BY <1>1, <1>3, <1>4 DEF Tidy
<1> QED BY <1>1, <1>2, <1>5, Plainly DEF Special

LEMMA TimerTidy ==
    ASSUME Calm, Shapes, InTurn, Tidy, TimerFires
    PROVE  /\ pending # None /\ pending.id = open /\ open \in DocIds /\ pending.record \in Records
           /\ \A t \in Thens(requests) : t.kind \in {"none", "load"}
           /\ requests' = Append(requests, Put(open, pending.record, NoThen)) /\ pending' = None
           /\ UNCHANGED <<disk, open, plan, loading, saving, remote, clock>>
           /\ Tidy'
<1> DEFINE q == Put(open, pending.record, NoThen)
<1>1. /\ pending # None /\ pending.id = open /\ open \in DocIds /\ pending.record \in Records
      /\ requests' = Append(requests, q) /\ pending' = None /\ Alone /\ saving = None
      /\ UNCHANGED <<disk, open, plan, loading, saving, remote, clock>>
  BY PendingFacts DEF TimerFires, Tidy
<1>2. \A t \in Thens(requests) : t.kind \in {"none", "load"}
  BY <1>1, Quiet
<1>3. q \in Request /\ q.then.kind = "none" /\ Good(requests)
  BY <1>1, Makes, Plainly DEF Shapes
<1>4. OnlyLast(requests') /\ Thens(requests') = Thens(requests) \cup {q.then}
  <2> HIDE DEF q
  <2> QED BY <1>1, <1>2, <1>3, OnlyLastPush, ThensPush, Plainly DEF Special
<1>5. \A t \in Thens(requests') : t.kind \in {"none", "load"}
  BY <1>2, <1>3, <1>4
<1>6. Tidy'
  BY <1>1, <1>4, <1>5, Plainly DEF Tidy
<1> QED BY <1>1, <1>2, <1>6

LEMMA StrokeTidy ==
    ASSUME Calm, Shapes, InTurn, Tidy, Stroke
    PROVE  /\ open \in DocIds /\ loading = Idle /\ plan[open] \in Records
           /\ \E held \in Records :
                 /\ plan' = [plan EXCEPT ![open] = held]
                 /\ plan[open].rows \subseteq held.rows
                 /\ pending' = [id |-> open, record |-> Plain(held)]
           /\ requests' = requests
           /\ \A t \in Thens(requests) : t.kind \in Edits \cup {"none", "load"}
           /\ UNCHANGED <<disk, open, loading, saving, remote>>
           /\ Tidy'
<1> DEFINE new == [plan[open] EXCEPT !.rows = @ \cup {Fresh}, !.dirty = TRUE]
<1>1. /\ open \in DocIds /\ loading = Idle /\ saving = None /\ plan[open] \in Records
      /\ clock \in Stamps /\ clock < MaxStamp /\ ~Flushed
      /\ UNCHANGED <<disk, open, loading, saving, remote>>
  BY DEF Stroke, CanEdit, Shapes, Calm
<1>2. new \in Records /\ plan[open].rows \subseteq new.rows
  BY <1>1, HeldFacts DEF Records
<1>3. plan' = [plan EXCEPT ![open] = new] /\ Queue(open, Plain(new), FALSE)
  BY DEF Stroke, Hold
<1> HIDE DEF new
<1>4. requests' = requests /\ pending' = [id |-> open, record |-> Plain(new)]
  BY <1>3 DEF Queue, Replace, Tidy
<1>5. \A t \in Thens(requests) : t.kind \in Edits \cup {"none", "load"}
  <2>1. \A i \in 1..Len(requests) : requests[i].then.kind \notin {"queue", "save"}
    BY <1>1, NoSave DEF Flushed
  <2>2. Good(requests)
    BY DEF Shapes
  <2>3. \A t \in Thens(requests) : t.kind \in Kinds
    BY <2>2, ThensFacts
  <2> QED BY <2>1, <2>3 DEF Thens, Kinds
<1>6. Tidy'
  BY <1>1, <1>4, <1>5, Plainly DEF Tidy
<1> QED BY <1>1, <1>2, <1>3, <1>4, <1>5, <1>6

LEMMA UndoTidy ==
    ASSUME Calm, Shapes, InTurn, Tidy, NEW s \in Stamps, Undo(s)
    PROVE  /\ open \in DocIds /\ loading = Idle /\ plan[open] \in Records
           /\ \E held \in Records :
                 /\ plan' = [plan EXCEPT ![open] = held]
                 /\ held.rows = plan[open].rows \ {s}
                 /\ requests' = Append(requests, Put(open, Plain(held), NoThen))
           /\ pending' = None /\ undone' = undone \cup {s}
           /\ \A t \in Thens(requests) : t.kind \in {"none", "load"}
           /\ UNCHANGED <<disk, open, loading, saving, server>>
           /\ Tidy'
<1> DEFINE new == [plan[open] EXCEPT !.rows = @ \ {s}, !.dirty = TRUE]
           q == Put(open, Plain(new), NoThen)
<1>1. /\ open \in DocIds /\ loading = Idle /\ saving = None /\ plan[open] \in Records
      /\ clock \in Stamps /\ clock < MaxStamp /\ Alone /\ undone' = undone \cup {s}
      /\ UNCHANGED <<disk, open, loading, saving, server>>
  BY DEF Undo, CanEdit, Shapes
<1>2. new \in Records /\ new.rows = plan[open].rows \ {s}
  BY <1>1, HeldFacts DEF Records
<1>3. plan' = [plan EXCEPT ![open] = new] /\ Queue(open, Plain(new), TRUE)
  BY DEF Undo, Hold
<1> HIDE DEF new
<1>4. requests' = Append(requests, q) /\ pending' = None
  BY <1>3 DEF Queue, Replace, Tidy
<1>5. \A t \in Thens(requests) : t.kind \in {"none", "load"}
  BY <1>1, Quiet
<1>6. q \in Request /\ q.then.kind = "none" /\ Good(requests)
  <2>1. Plain(new) \in Records /\ Good(requests)
    BY <1>2, RecordFacts DEF Shapes
  <2> QED BY <1>1, <2>1, Makes, Plainly
<1> HIDE DEF q
<1>7. OnlyLast(requests') /\ Thens(requests') = Thens(requests) \cup {q.then}
  BY <1>4, <1>5, <1>6, OnlyLastPush, ThensPush, Plainly DEF Special
<1>8. \A t \in Thens(requests') : t.kind \in {"none", "load"}
  BY <1>5, <1>6, <1>7
<1>9. Tidy'
  BY <1>1, <1>4, <1>7, <1>8, Plainly DEF Tidy
<1> QED BY <1>1, <1>2, <1>3, <1>4, <1>5, <1>9 DEF q

LEMMA MetadataTidy ==
    ASSUME Calm, Shapes, InTurn, Tidy, SetCount \/ \E kind \in Flushing : EditMetadata(kind)
    PROVE  /\ open \in DocIds /\ loading = Idle /\ plan[open] \in Records
           /\ \E held \in Records, t \in Follow, q \in Request :
                 /\ plan' = [plan EXCEPT ![open] = held] /\ held.rows = plan[open].rows
                 /\ t.kind \in Edits /\ t.id = open /\ t.record = held
                 /\ requests' = Append(requests, q) /\ q.then = t
                 /\ \/ pending = None /\ q.op = "get"
                    \/ pending # None /\ q.op = "put" /\ q.id = open /\ q.record = pending.record
                 /\ \A r \in Records : Content(r) = Content(plan[open]) =>
                       Content(Merged(t.kind, r, held)) = Content(held)
           /\ pending' = None
           /\ pending # None => pending.id = open /\ pending.record \in Records
           /\ \A t \in Thens(requests) : t.kind \in {"none", "load"}
           /\ \A d \in DocIds : server'[d].rows = server[d].rows
           /\ UNCHANGED <<disk, open, loading, saving, undone>>
           /\ Tidy'
<1>1. /\ CanEdit /\ Alone /\ open \in DocIds /\ plan[open] \in Records
      /\ \A d \in DocIds : server'[d].rows = server[d].rows
      /\ SetCount => pending = None
      /\ UNCHANGED <<disk, open, loading, saving, undone>>
  BY Edited DEF Calm
<1>2. PICK held \in Records, t \in Follow, q \in Request :
         /\ plan' = [plan EXCEPT ![open] = held] /\ held.rows = plan[open].rows
         /\ t.kind \in Edits /\ t.id = open /\ t.record = held
         /\ requests' = Append(requests, q) /\ q.then = t
         /\ \/ /\ pending = None \/ SetCount
               /\ pending' = pending /\ q.op = "get" /\ q.id = open
            \/ /\ pending # None /\ pending' = None /\ q.op = "put" /\ q.id = pending.id
               /\ q.record = pending.record
         /\ \A r \in Records : Content(r) = Content(plan[open]) =>
               Content(Merged(t.kind, r, held)) = Content(held)
  BY Edited
<1>3. loading = Idle /\ saving = None
  BY <1>1 DEF CanEdit
<1>4. pending # None => pending.id = open /\ pending.record \in Records
  BY PendingFacts DEF Tidy
<1>5. \A u \in Thens(requests) : u.kind \in {"none", "load"}
  BY <1>1, <1>3, Quiet
<1>6. Good(requests)
  BY DEF Shapes
<1>7. OnlyLast(requests') /\ Thens(requests') = Thens(requests) \cup {t}
  BY <1>2, <1>5, <1>6, OnlyLastPush, ThensPush, Plainly DEF Special
<1>8. pending' = None
  BY <1>1, <1>2
<1>9. Tidy'
  BY <1>1, <1>2, <1>3, <1>5, <1>7, <1>8, Plainly DEF Tidy
<1>10. \/ pending = None /\ q.op = "get"
       \/ pending # None /\ q.op = "put" /\ q.id = open /\ q.record = pending.record
  BY <1>1, <1>2, <1>4
<1> QED BY <1>1, <1>2, <1>3, <1>4, <1>5, <1>8, <1>9, <1>10

LEMMA DeleteTidy ==
    ASSUME Calm, Shapes, InTurn, Tidy, NEW d \in DocIds, Delete(d)
    PROVE  /\ d # open /\ plan' = [plan EXCEPT ![d] = None] /\ loading = Idle
           /\ pending # None => pending.id # d
           /\ \E q \in Request : /\ requests' = Append(requests, q) /\ q.op = "delete" /\ q.id = d
                                 /\ q.record = None /\ q.then = NoThen
           /\ \A t \in Thens(requests) : t.kind \in {"none", "load"}
           /\ UNCHANGED <<disk, pending, open, loading, saving, remote, clock>>
           /\ Tidy'
<1> DEFINE q == [op |-> "delete", id |-> d, record |-> None, then |-> NoThen]
<1>1. /\ d # open /\ plan' = [plan EXCEPT ![d] = None] /\ requests' = Append(requests, q)
      /\ Alone /\ saving = None /\ loading = Idle /\ (pending # None => pending.id # d)
      /\ UNCHANGED <<disk, pending, open, loading, saving, remote, clock>>
  BY DEF Delete
<1>2. \A t \in Thens(requests) : t.kind \in {"none", "load"}
  BY <1>1, Quiet
<1>3. /\ q \in Request /\ q.op = "delete" /\ q.id = d /\ q.record = None /\ q.then = NoThen
      /\ Good(requests)
  BY Plainly DEF Request, Shapes
<1> HIDE DEF q
<1>4. OnlyLast(requests') /\ Thens(requests') = Thens(requests) \cup {NoThen}
  BY <1>1, <1>2, <1>3, OnlyLastPush, ThensPush, Plainly DEF Special
<1>5. Tidy'
  BY <1>1, <1>2, <1>4, Plainly DEF Tidy
<1> QED BY <1>1, <1>2, <1>3, <1>5

LEMMA StartOpenTidy ==
    ASSUME Calm, Shapes, InTurn, Tidy, NEW d \in DocIds, StartOpen(d)
    PROVE  /\ d # open /\ loading' = [Idle EXCEPT !.id = d]
           /\ \E q \in Request : /\ requests' = Append(Stopped(requests), q)
                                 /\ q.op = "get" /\ q.record = None /\ q.then.kind = "load"
           /\ \A t \in Thens(requests) : t.kind \in {"none", "load"}
           /\ \A t \in Thens(Stopped(requests)) : t.kind = "none"
           /\ UNCHANGED <<disk, pending, open, plan, saving, remote, clock>>
           /\ Tidy'
<1> DEFINE u == Then("load", d, None, FALSE)
           q == Get(d, u)
<1>1. /\ d # open /\ loading' = [Idle EXCEPT !.id = d]
      /\ requests' = Append(Stopped(requests), q) /\ Alone /\ saving = None
      /\ UNCHANGED <<disk, pending, open, plan, saving, remote, clock>>
  BY DEF StartOpen, Stopped
<1>2. \A t \in Thens(requests) : t.kind \in {"none", "load"}
  BY <1>1, Quiet
<1>3. u \in Follow /\ u.kind = "load"
  BY Plainly DEF Then, Follow
<1> HIDE DEF u
<1>4. q \in Request /\ q.op = "get" /\ q.record = None /\ q.then = u
  BY <1>3, Asks
<1> HIDE DEF q
<1>5. Good(requests) /\ Good(Stopped(requests))
  BY CancelFacts DEF Shapes
<1>6. \A t \in Thens(Stopped(requests)) : t.kind = "none"
  BY <1>2, <1>5, ThensStopped
<1>7. OnlyLast(requests') /\ Thens(requests') = Thens(Stopped(requests)) \cup {u}
  BY <1>1, <1>4, <1>5, <1>6, OnlyLastPush, ThensPush, Plainly DEF Special
<1>8. Tidy'
  BY <1>1, <1>3, <1>6, <1>7, Plainly DEF Tidy
<1> QED BY <1>1, <1>2, <1>3, <1>4, <1>6, <1>8

(* The document before is flushed first if it waits to be written.         *)
LEMMA ShowTidy ==
    ASSUME Calm, Shapes, InTurn, Tidy, Loads, OpenOnline \/ OpenOffline
    PROVE  \E record \in Records, q \in Request :
              /\ loading.id \in DocIds /\ loading.id # open /\ loading.read
              /\ loading.record = disk[loading.id]
              /\ \A j \in 1..Len(requests) : ~Changes(requests[j], loading.id)
              /\ open' = loading.id /\ plan' = [plan EXCEPT ![loading.id] = record]
              /\ loading' = Idle /\ pending' = None
              /\ record.shouldFetch = FALSE
              /\ IF disk[loading.id] = None \/ disk[loading.id].shouldFetch
                 THEN \/ record.rows = server[loading.id].rows
                      \/ /\ "offline" \in Allowed /\ disk[loading.id] # None
                         /\ record.rows = disk[loading.id].rows
                 ELSE record.rows = disk[loading.id].rows
              /\ requests' = Append(requests, q) /\ q.op = "put"
              /\ \/ /\ pending = None /\ q.id = loading.id /\ q.record = Plain(record)
                    /\ q.then.kind = "none"
                 \/ /\ pending # None /\ pending.id = open /\ q.id = open
                    /\ pending.record \in Records /\ open \in DocIds
                    /\ q.record = pending.record /\ q.then.kind = "queue"
                    /\ q.then.id = loading.id /\ q.then.record = Plain(record)
              /\ \A t \in Thens(requests) : t.kind \in {"none", "load"}
              /\ UNCHANGED <<disk, saving, remote, clock>>
              /\ Tidy'
<1>1. PICK record \in Records :
         /\ Show(record) /\ loading.read /\ Alone /\ loading.id \in DocIds
         /\ record.shouldFetch = FALSE
         /\ IF loading.record = None \/ loading.record.shouldFetch
            THEN \/ record.rows = server[loading.id].rows
                 \/ /\ "offline" \in Allowed /\ loading.record # None
                    /\ record.rows = loading.record.rows
            ELSE record.rows = loading.record.rows
  BY Shown
<1>2. /\ loading.id # open /\ loading.record = disk[loading.id]
      /\ \A j \in 1..Len(requests) : ~Changes(requests[j], loading.id)
  BY <1>1, Numbers DEF Loads
<1>3. /\ open' = loading.id /\ plan' = [plan EXCEPT ![loading.id] = record]
      /\ Queue(loading.id, Plain(record), TRUE) /\ loading' = Idle
      /\ UNCHANGED <<disk, saving, remote, clock>>
  BY <1>1 DEF Show
<1>4. saving = None
  BY <1>1, Numbers DEF Shapes, Idle
<1>5. \A t \in Thens(requests) : t.kind \in {"none", "load"}
  BY <1>1, <1>4, Quiet
<1>6. Plain(record) \in Records /\ Good(requests)
  BY RecordFacts DEF Shapes
<1>7. pending # None => /\ pending.id = open /\ open \in DocIds /\ pending.record \in Records
                        /\ pending.id # loading.id
  BY <1>2, PendingFacts DEF Tidy
<1>8. PICK q \in Request :
         /\ requests' = Append(requests, q) /\ pending' = None /\ q.op = "put"
         /\ \/ /\ pending = None /\ q.id = loading.id /\ q.record = Plain(record)
               /\ q.then.kind = "none"
            \/ /\ pending # None /\ q.id = open
               /\ q.record = pending.record /\ q.then.kind = "queue"
               /\ q.then.id = loading.id /\ q.then.record = Plain(record) /\ q.then.now
  <2>1. CASE pending = None
    <3> DEFINE q == Put(loading.id, Plain(record), NoThen)
    <3>1. requests' = Append(requests, q) /\ pending' = None
      BY <1>3, <2>1 DEF Queue, Replace
    <3>2. /\ q \in Request /\ q.op = "put" /\ q.id = loading.id /\ q.record = Plain(record)
          /\ q.then.kind = "none"
      BY <1>1, <1>6, Makes, Plainly
    <3> HIDE DEF q
    <3> QED BY <2>1, <3>1, <3>2
  <2>2. CASE pending # None
    <3> DEFINE t == Then("queue", loading.id, Plain(record), TRUE)
               q == Put(pending.id, pending.record, t)
    <3>1. requests' = Append(requests, q) /\ pending' = None
      BY <1>3, <1>7, <2>2 DEF Queue
    <3>2. /\ t \in Follow /\ t.kind = "queue" /\ t.id = loading.id /\ t.record = Plain(record)
          /\ t.now
      BY <1>1, <1>6, Plainly DEF Then, Follow
    <3> HIDE DEF t
    <3>3. q \in Request /\ q.op = "put" /\ q.id = open /\ q.record = pending.record /\ q.then = t
      BY <1>7, <2>2, <3>2, Makes
    <3> HIDE DEF q
    <3> QED BY <2>2, <3>1, <3>2, <3>3
  <2> QED BY <2>1, <2>2
<1>9. OnlyLast(requests') /\ Thens(requests') = Thens(requests) \cup {q.then}
  BY <1>5, <1>6, <1>8, OnlyLastPush, ThensPush, Plainly DEF Special
<1>10. q.then.kind \in {"none", "queue"} /\ (q.then.kind = "queue" => q.then.id = loading.id /\ q.then.now)
  BY <1>8
<1>11. Tidy'
  BY <1>3, <1>4, <1>5, <1>8, <1>9, <1>10, Plainly DEF Tidy
<1> QED BY <1>1, <1>2, <1>3, <1>5, <1>7, <1>8, <1>11

LEMMA StartSaveTidy ==
    ASSUME Calm, Shapes, InTurn, Tidy, StartSave
    PROVE  /\ open \in DocIds /\ loading = Idle /\ pending' = None
           /\ pending # None => pending.id = open /\ pending.record \in Records
           /\ \E q \in Request :
                 /\ requests' = Append(requests, q) /\ q.then.kind = "save"
                 /\ \/ pending = None /\ q.op = "get"
                    \/ pending # None /\ q.op = "put" /\ q.id = open /\ q.record = pending.record
           /\ \A t \in Thens(requests) : t.kind \in {"none", "load"}
           /\ UNCHANGED <<disk, open, plan, loading, remote, clock>>
           /\ Tidy'
<1> DEFINE u == Then("save", open, None, FALSE)
<1>1. /\ FlushThenGet(open, u) /\ saving' = open /\ open \in DocIds /\ saving = None
      /\ loading = Idle /\ Alone
      /\ UNCHANGED <<disk, open, plan, loading, remote, clock>>
  BY DEF StartSave, Shapes
<1>2. u \in Follow /\ u.kind = "save" /\ u.id = open
  BY <1>1, Plainly DEF Then, Follow
<1> HIDE DEF u
<1>3. PICK q \in Request : /\ requests' = Append(requests, q) /\ q.then = u /\ pending' = None
                           /\ \/ pending = None /\ q.op = "get" /\ q.id = u.id
                              \/ /\ pending # None /\ q.op = "put" /\ q.id = pending.id
                                 /\ q.record = pending.record
  BY <1>1, <1>2, FlushTurns
<1>4. pending # None => pending.id = open /\ pending.record \in Records
  BY PendingFacts DEF Tidy
<1>5. \A t \in Thens(requests) : t.kind \in {"none", "load"}
  BY <1>1, Quiet
<1>6. Good(requests)
  BY DEF Shapes
<1>7. OnlyLast(requests') /\ Thens(requests') = Thens(requests) \cup {u}
  BY <1>3, <1>5, <1>6, OnlyLastPush, ThensPush, Plainly DEF Special
<1>8. Tidy'
  BY <1>1, <1>2, <1>3, <1>5, <1>7, Plainly DEF Tidy
<1> QED BY <1>1, <1>2, <1>3, <1>4, <1>5, <1>8

LEMMA SaveReadTidy ==
    ASSUME Shapes, InTurn, Tidy, NEW ok, SaveRead(ok)
    PROVE  /\ Answered /\ Head1.op = "get" /\ Head1.then.kind = "save" /\ Rest = <<>>
           /\ Thens(Rest) = {} /\ open \in DocIds /\ loading = Idle /\ pending = None
           /\ plan[open] \in Records
           /\ UNCHANGED <<disk, pending, open, loading, undone, clock>>
           /\ \/ requests' = Rest /\ UNCHANGED <<server, plan>>
              \/ \E saved \in Records :
                    /\ disk[open] # None
                    /\ Content(saved) = Content(plan[open]) /\ saved.rows = plan[open].rows
                    /\ saved.shouldFetch = FALSE
                    /\ server' = [server EXCEPT ![open] = saved]
                    /\ requests' = Append(Rest, Put(open, saved, NoThen))
                    /\ plan' = [plan EXCEPT ![open] = [plan[open] EXCEPT !.dirty = FALSE]]
           /\ Tidy'
<1> DEFINE saved == Plain([plan[open] EXCEPT !.dirty = FALSE])
           q == Put(open, saved, NoThen)
<1>1. /\ Answered /\ Head1.op = "get" /\ Head1.then.kind = "save" /\ open \in DocIds
      /\ Head1.id = open /\ saving = open /\ loading = Idle /\ plan[open] \in Records
      /\ saved \in Records
  BY SavingFacts
<1>2. Rest = <<>> /\ Thens(Rest) = {} /\ Good(Rest) /\ OnlyLast(Rest)
  BY <1>1, AfterHead DEF Special
<1>3. pending = None
  BY <1>1, Numbers DEF Tidy
<1>4. /\ saving' = None /\ UNCHANGED <<disk, pending, open, loading, undone, clock>>
  BY DEF SaveRead
<1>5. CASE ok /\ disk[open] # None
  <2>1. /\ server' = [server EXCEPT ![open] = saved] /\ requests' = Append(Rest, q)
        /\ plan' = [plan EXCEPT ![open].dirty = FALSE]
    BY <1>1, <1>5 DEF SaveRead
  <2>2. /\ Content(saved) = Content(plan[open]) /\ saved.rows = plan[open].rows
        /\ saved.shouldFetch = FALSE
    BY <1>1 DEF Plain, Content, Records
  <2>3. plan' = [plan EXCEPT ![open] = [plan[open] EXCEPT !.dirty = FALSE]]
    BY <2>1
  <2> HIDE DEF saved
  <2>4. q \in Request /\ q.then.kind = "none"
    BY <1>1, Makes, Plainly
  <2> HIDE DEF q
  <2>5. OnlyLast(requests') /\ Thens(requests') = {q.then}
    BY <1>2, <2>1, <2>4, LonePush
  <2>6. Tidy'
    BY <1>3, <1>4, <2>4, <2>5, Plainly DEF Tidy
  <2> QED BY <1>1, <1>2, <1>3, <1>4, <1>5, <2>1, <2>2, <2>3, <2>6 DEF q
<1>6. CASE ~(ok /\ disk[open] # None)
  <2>1. requests' = Rest /\ UNCHANGED <<server, plan>>
    BY <1>1, <1>6 DEF SaveRead
  <2>2. Tidy'
    BY <1>2, <1>3, <1>4, <2>1 DEF Tidy
  <2> QED BY <1>1, <1>2, <1>3, <1>4, <2>1, <2>2
<1> QED BY <1>5, <1>6

LEMMA TidyStep == Calm /\ Shapes /\ InTurn /\ Tidy /\ Loads /\ [Next]_vars => Tidy'
<1> SUFFICES ASSUME Calm, Shapes, InTurn, Tidy, Loads, [Next]_vars PROVE Tidy'
  OBVIOUS
<1>1. CASE PutDone \/ EditRead \/ Deleted \/ Ignored \/ LoadRead \/ TimerFires
  BY <1>1, PutDoneTidy, EditReadTidy, PopTidy, TimerTidy
<1>2. CASE Stroke \/ SetCount \/ (\E s \in Stamps : Undo(s))
           \/ \E kind \in Flushing : EditMetadata(kind)
  BY <1>2, StrokeTidy, UndoTidy, MetadataTidy
<1>3. CASE \E d \in DocIds : Delete(d) \/ StartOpen(d)
  BY <1>3, DeleteTidy, StartOpenTidy
<1>4. CASE OpenOnline \/ OpenOffline
  BY <1>4, ShowTidy
<1>5. CASE StartSave
  BY <1>5, StartSaveTidy
<1>6. ASSUME NEW b \in BOOLEAN, SaveRead(b) PROVE Tidy'
  BY <1>6, SaveReadTidy
<1>7. ASSUME NEW b \in BOOLEAN, Exit(b) PROVE Tidy'
  <2>1. requests' = <<>> /\ pending' = None /\ open' = None /\ saving' = None /\ Len(<<>>) = 0
    BY <1>7, EmptySeq DEF Exit
  <2> QED BY <2>1 DEF Tidy, OnlyLast, Thens
<1>8. CASE OpenFails
  <2>1. loading # Idle /\ loading' = Idle
        /\ UNCHANGED <<disk, requests, pending, open, plan, saving, remote, clock>>
    BY <1>8 DEF OpenFails, Idle
  <2> QED BY <2>1 DEF Tidy
<1>9. CASE UNCHANGED vars
  BY <1>9 DEF vars, Tidy, Idle
<1> QED BY <1>1, <1>2, <1>3, <1>4, <1>5, <1>6, <1>7, <1>8, <1>9 DEF Next

(* Answered requests no longer come before the load; one that changed      *)
(* another document changed nothing that was read.                         *)
LEMMA PopLoads ==
    ASSUME Shapes, InTurn, Tidy, Loads, Answered, requests' = Rest, open' = open,
           \/ Head1.op = "get" /\ disk' = disk
           \/ Head1.op # "get" /\ disk' = [disk EXCEPT ![Head1.id] = Head1.record],
           \/ loading' = loading
           \/ LoadRead
    PROVE  Loads'
<1>1. SUFFICES ASSUME loading'.id # None PROVE Loads'
  BY DEF Loads
<1>2. /\ Head1 = requests[1] /\ 1 \in 1..Len(requests)
      /\ \A i \in 1..Len(Rest) : i + 1 \in 1..Len(requests) /\ Rest[i] = requests[i + 1]
  BY AfterHead
<1>3. LoadRead => /\ Head1.op = "get" /\ Head1.then.kind = "load" /\ Head1.id = loading.id
                  /\ Head1.id \in DocIds /\ disk' = disk
                  /\ loading' = [loading EXCEPT !.read = TRUE, !.record = disk[Head1.id]]
  BY HeadFacts DEF LoadRead, InTurn, Turns
<1>4. loading'.id = loading.id /\ loading.id \in DocIds
  BY <1>1, <1>3 DEF Shapes
<1>5. /\ loading.id # open
      /\ \A i, j \in 1..Len(requests) :
            requests[i].then.kind = "load" /\ Changes(requests[j], loading.id) => j < i
      /\ loading.read => /\ loading.record = disk[loading.id]
                         /\ \A j \in 1..Len(requests) : ~Changes(requests[j], loading.id)
  BY <1>4, Numbers DEF Loads
<1>6. \A i, j \in 1..Len(Rest) : i + 1 < j + 1 => i < j
  OBVIOUS
<1>7. \A i, j \in 1..Len(Rest) :
         Rest[i].then.kind = "load" /\ Changes(Rest[j], loading.id) => j < i
  BY <1>2, <1>5, <1>6
<1>8. CASE loading' = loading
  <2>1. loading.read => disk'[loading.id] = disk[loading.id]
    BY <1>2, <1>4, <1>5 DEF Changes, Shapes
  <2>2. loading.read => \A j \in 1..Len(Rest) : ~Changes(Rest[j], loading.id)
    BY <1>2, <1>5
  <2> QED BY <1>5, <1>7, <1>8, <2>1, <2>2 DEF Loads
<1>9. CASE LoadRead
  <2>1. \A j \in 1..Len(Rest) : ~Changes(Rest[j], loading.id)
    <3> SUFFICES ASSUME NEW j \in 1..Len(Rest), Changes(Rest[j], loading.id) PROVE FALSE
      OBVIOUS
    <3>1. j + 1 \in 1..Len(requests) /\ Changes(requests[j + 1], loading.id)
      BY <1>2
    <3>2. j + 1 < 1
      BY <1>2, <1>3, <1>5, <1>9, <3>1
    <3> QED BY <3>2
  <2>2. loading'.record = disk'[loading.id]
    BY <1>3, <1>9 DEF Shapes
  <2> QED BY <1>4, <1>5, <1>7, <2>1, <2>2 DEF Loads
<1> QED BY <1>8, <1>9

LEMMA PushLoads ==
    ASSUME Shapes, Loads, NEW q \in Request, requests' = Append(requests, q),
           q.then.kind # "load", ~Changes(q, loading.id),
           UNCHANGED <<disk, open, loading>>
    PROVE  Loads'
<1>1. Good(requests)
  BY DEF Shapes
<1>2. /\ \A i \in 1..Len(requests) : requests'[i] = requests[i]
      /\ \A i \in 1..Len(requests') : i \in 1..Len(requests) \/ requests'[i] = q
  BY <1>1, Pushes DEF Good
<1>3. SUFFICES ASSUME loading.id # None PROVE Loads'
  BY DEF Loads
<1>4. \A i, j \in 1..Len(requests') :
         requests'[i].then.kind = "load" /\ Changes(requests'[j], loading.id) => j < i
  BY <1>2, <1>3 DEF Loads
<1>5. loading.read => \A j \in 1..Len(requests') : ~Changes(requests'[j], loading.id)
  BY <1>2, <1>3 DEF Loads
<1> QED BY <1>3, <1>4, <1>5 DEF Loads

LEMMA LoadsStep == Calm /\ Shapes /\ InTurn /\ Tidy /\ Loads /\ [Next]_vars => Loads'
<1> SUFFICES ASSUME Calm, Shapes, InTurn, Tidy, Loads, [Next]_vars PROVE Loads'
  OBVIOUS
<1>0. Idle.id = None
  BY DEF Idle
<1>1. CASE PutDone
  <2>1. /\ Answered /\ Head1.op = "put" /\ disk' = [disk EXCEPT ![Head1.id] = Head1.record]
        /\ open' = open /\ loading' = loading
    BY <1>1 DEF PutDone
  <2>2. CASE Head1.then.kind = "none"
    <3>1. requests' = Rest
      BY <1>1, <2>2, PutDoneTidy, Plainly
    <3> QED BY <2>1, <3>1, PopLoads
  <2>3. CASE Head1.then.kind \in Edits \cup {"queue", "save"}
    <3>1. Head1.then \in Thens(requests)
      BY <2>1, AfterHead
    <3>2. Head1.then.kind = "save" => saving # None
      BY <2>1, HeadFacts, Numbers DEF InTurn, Turns, Sound
    <3>3. loading = Idle
      BY <2>3, <3>1, <3>2 DEF Tidy, Shapes
    <3> QED BY <1>0, <2>1, <3>3 DEF Loads
  <2> QED BY <1>1, <2>2, <2>3, PutDoneTidy
<1>2. CASE EditRead
  BY <1>0, <1>2, EditReadTidy DEF Loads
<1>3. CASE Deleted
  <2>1. Answered /\ Head1.op = "delete" /\ Head1.record = None
        /\ disk' = [disk EXCEPT ![Head1.id] = None] /\ requests' = Rest
        /\ open' = open /\ loading' = loading
    BY <1>3, HeadFacts DEF Deleted, Sound
  <2> QED BY <2>1, PopLoads
<1>4. CASE Ignored
  BY <1>4, PopLoads DEF Ignored
<1>5. CASE LoadRead
  BY <1>5, PopLoads DEF LoadRead
<1>6. CASE TimerFires
  <2> DEFINE q == Put(open, pending.record, NoThen)
  <2>1. /\ open \in DocIds /\ pending.record \in Records /\ requests' = Append(requests, q)
        /\ UNCHANGED <<disk, open, loading>>
    BY <1>6, TimerTidy
  <2>2. q \in Request /\ q.id = open /\ q.then.kind = "none"
    BY <2>1, Makes, Plainly
  <2> HIDE DEF q
  <2>3. CASE loading.id = None
    BY <2>1, <2>3 DEF Loads
  <2>4. CASE loading.id # None
    BY <2>1, <2>2, <2>4, PushLoads DEF Loads, Changes
  <2> QED BY <2>3, <2>4
<1>7. CASE Stroke
  BY <1>0, <1>7, StrokeTidy DEF Loads
<1>8. ASSUME NEW s \in Stamps, Undo(s) PROVE Loads'
  BY <1>0, <1>8, UndoTidy DEF Loads
<1>9. CASE SetCount \/ \E kind \in Flushing : EditMetadata(kind)
  BY <1>0, <1>9, MetadataTidy DEF Loads
<1>10. ASSUME NEW d \in DocIds, Delete(d) PROVE Loads'
  BY <1>0, <1>10, DeleteTidy DEF Loads
<1>11. ASSUME NEW d \in DocIds, StartOpen(d) PROVE Loads'
  <2>1. /\ d # open /\ loading'.id = d /\ loading'.read = FALSE /\ open' = open
    BY <1>11, StartOpenTidy DEF Idle
  <2>2. PICK q \in Request : /\ requests' = Append(Stopped(requests), q) /\ q.op = "get"
                             /\ q.then.kind = "load"
    BY <1>11, StartOpenTidy
  <2>3. \A i \in 1..Len(Stopped(requests)) : Stopped(requests)[i].then.kind = "none"
    BY <1>11, StartOpenTidy DEF Thens
  <2>4. Good(Stopped(requests))
    BY CancelFacts DEF Shapes
  <2>5. /\ Len(Stopped(requests)) \in Nat
        /\ \A i \in 1..Len(requests') :
              \/ i \in 1..Len(Stopped(requests)) /\ requests'[i] = Stopped(requests)[i]
              \/ i = Len(Stopped(requests)) + 1 /\ requests'[i] = q
    BY <2>2, <2>4, Pushes DEF Good
  <2>6. \A i, j \in 1..Len(requests') :
           requests'[i].then.kind = "load" /\ Changes(requests'[j], d) => j < i
    <3> TAKE i, j \in 1..Len(requests')
    <3> HAVE requests'[i].then.kind = "load" /\ Changes(requests'[j], d)
    <3>1. i = Len(Stopped(requests)) + 1
      BY <2>3, <2>5
    <3>2. j \in 1..Len(Stopped(requests))
      BY <2>2, <2>5 DEF Changes
    <3> QED BY <2>5, <3>1, <3>2
  <2> QED BY <2>1, <2>6 DEF Loads
<1>12. CASE OpenOnline \/ OpenOffline
  <2>1. loading' = Idle
    BY <1>12 DEF OpenOnline, OpenOffline, Show
  <2> QED BY <1>0, <2>1 DEF Loads
<1>13. CASE OpenFails
  BY <1>0, <1>13 DEF OpenFails, Loads
<1>14. CASE StartSave
  BY <1>0, <1>14, StartSaveTidy DEF Loads
<1>15. ASSUME NEW b \in BOOLEAN, SaveRead(b) PROVE Loads'
  BY <1>0, <1>15, SaveReadTidy DEF Loads
<1>16. ASSUME NEW b \in BOOLEAN, Exit(b) PROVE Loads'
  BY <1>0, <1>16 DEF Exit, Loads
<1>17. CASE UNCHANGED vars
  BY <1>17 DEF vars, Loads
<1> QED BY <1>1, <1>2, <1>3, <1>4, <1>5, <1>6, <1>7, <1>8, <1>9, <1>10, <1>11, <1>12, <1>13,
           <1>14, <1>15, <1>16, <1>17 DEF Next

-----------------------------------------------------------------------------
(* What a record will be                                                   *)

(* The record that a document has once the requests s, made of a table dk, *)
(* are answered: what the last of them writes to it.                       *)
Final(dk, s, d, r) ==
    \/ r = dk[d] /\ \A i \in 1..Len(s) : ~Changes(s[i], d)
    \/ \E i \in 1..Len(s) : /\ Changes(s[i], d) /\ r = s[i].record
                            /\ \A j \in 1..Len(s) : Changes(s[j], d) => j <= i

Waits(d)  == pending # None /\ pending.id = d
Queued(d) == \E t \in Thens(requests) : t.kind = "queue" /\ t.id = d
Changing(d) == \E t \in Thens(requests) : t.kind \in Edits /\ t.id = d

(* What waits to be written of a document, else what its record will be,   *)
(* else what an edit will make of that, is what the tab last held.         *)
Due(d) ==
    plan[d] # None =>
        /\ Waits(d) => Content(pending.record) = Content(plan[d])
        /\ \A t \in Thens(requests) :
              t.kind = "queue" /\ t.id = d => Content(t.record) = Content(plan[d])
        /\ \/ Waits(d) \/ Queued(d)
           \/ \A r \in Records \cup {None} : Final(disk, requests, d, r) =>
                 /\ r # None
                 /\ ~Changing(d) => Content(r) = Content(plan[d])
                 /\ \A t \in Thens(requests) : t.kind \in Edits /\ t.id = d =>
                       Content(Merged(t.kind, r, t.record)) = Content(plan[d])

Stored == \A d \in DocIds : Due(d)

LEMMA FinalPush ==
    ASSUME NEW s, Good(s), NEW q \in Request, NEW dk, NEW d, NEW r, Final(dk, Append(s, q), d, r)
    PROVE  IF Changes(q, d) THEN r = q.record ELSE Final(dk, s, d, r)
<1> DEFINE a == Append(s, q)
<1>1. /\ Len(s) \in Nat /\ Len(a) = Len(s) + 1 /\ a[Len(s) + 1] = q
      /\ \A i \in 1..Len(s) : a[i] = s[i] /\ i \in 1..Len(a)
      /\ \A i \in 1..Len(a) : i \in 1..Len(s) \/ i = Len(s) + 1
  BY Pushes DEF Good
<1>2. Len(s) + 1 \in 1..Len(a)
  BY <1>1
<1>3. Final(dk, a, d, r)
  OBVIOUS
<1> HIDE DEF a
<1>4. CASE Changes(q, d)
  <2>1. PICK i \in 1..Len(a) : /\ r = a[i].record
                               /\ \A j \in 1..Len(a) : Changes(a[j], d) => j <= i
    BY <1>1, <1>2, <1>3, <1>4 DEF Final
  <2>2. Len(s) + 1 <= i
    BY <1>1, <1>2, <1>4, <2>1
  <2>3. i = Len(s) + 1
    BY <1>1, <2>2
  <2> QED BY <1>1, <1>4, <2>1, <2>3
<1>5. CASE ~Changes(q, d)
  <2>1. CASE r = dk[d] /\ \A i \in 1..Len(a) : ~Changes(a[i], d)
    BY <1>1, <1>5, <2>1 DEF Final
  <2>2. ASSUME NEW i \in 1..Len(a), Changes(a[i], d), r = a[i].record,
               \A j \in 1..Len(a) : Changes(a[j], d) => j <= i
        PROVE  Final(dk, s, d, r)
    <3>1. i \in 1..Len(s) /\ a[i] = s[i]
      BY <1>1, <1>5, <2>2
    <3>2. \A j \in 1..Len(s) : Changes(s[j], d) => j <= i
      BY <1>1, <2>2
    <3> QED BY <2>2, <3>1, <3>2 DEF Final
  <2> QED BY <1>3, <1>5, <2>1, <2>2 DEF Final
<1> QED BY <1>4, <1>5

(* An answer carried out changes nothing of what is to come.               *)
LEMMA FinalPop ==
    ASSUME NEW s, Good(s), s # <<>>, NEW dk \in [DocIds -> Records \cup {None}], NEW dk2,
           \/ Head(s).op = "get" /\ dk2 = dk
           \/ Head(s).op # "get" /\ dk2 = [dk EXCEPT ![Head(s).id] = Head(s).record],
           NEW d \in DocIds, NEW r, Final(dk2, Tail(s), d, r)
    PROVE  Final(dk, s, d, r)
<1> DEFINE b == Tail(s)
<1>1. /\ Head(s) = s[1] /\ 1 \in 1..Len(s) /\ Len(b) \in Nat /\ Len(s) = Len(b) + 1
      /\ \A i \in 1..Len(b) : i + 1 \in 1..Len(s) /\ b[i] = s[i + 1]
      /\ \A i \in 1..Len(s) : i = 1 \/ i - 1 \in 1..Len(b)
  BY Pops DEF Good
<1>2. Final(dk2, b, d, r)
  OBVIOUS
<1> HIDE DEF b
<1>3. \A i \in 1..Len(s) : i = 1 \/ (i - 1 \in 1..Len(b) /\ b[i - 1] = s[i])
  <2> TAKE i \in 1..Len(s)
  <2>1. CASE i # 1
    <3>1. i - 1 \in 1..Len(b) /\ b[i - 1] = s[(i - 1) + 1]
      BY <1>1, <2>1
    <3>2. (i - 1) + 1 = i
      OBVIOUS
    <3> QED BY <3>1, <3>2
  <2> QED BY <2>1
<1>4. CASE r = dk2[d] /\ \A i \in 1..Len(b) : ~Changes(b[i], d)
  <2>1. CASE Changes(s[1], d)
    <3>1. r = s[1].record
      BY <1>1, <1>4, <2>1 DEF Changes
    <3>2. \A j \in 1..Len(s) : Changes(s[j], d) => j <= 1
      BY <1>3, <1>4
    <3> QED BY <1>1, <2>1, <3>1, <3>2 DEF Final
  <2>2. CASE ~Changes(s[1], d)
    <3>1. r = dk[d]
      BY <1>1, <1>4, <2>2 DEF Changes
    <3>2. \A j \in 1..Len(s) : ~Changes(s[j], d)
      BY <1>3, <1>4, <2>2
    <3> QED BY <3>1, <3>2 DEF Final
  <2> QED BY <2>1, <2>2
<1>5. ASSUME NEW i \in 1..Len(b), Changes(b[i], d), r = b[i].record,
             \A j \in 1..Len(b) : Changes(b[j], d) => j <= i
      PROVE  Final(dk, s, d, r)
  <2>1. i + 1 \in 1..Len(s) /\ Changes(s[i + 1], d) /\ r = s[i + 1].record
    BY <1>1, <1>5
  <2>2. \A j \in 1..Len(s) : Changes(s[j], d) => j <= i + 1
    BY <1>3, <1>5
  <2> QED BY <2>1, <2>2 DEF Final
<1> QED BY <1>2, <1>4, <1>5 DEF Final

LEMMA FinalStopped ==
    ASSUME NEW s, Good(s), NEW dk, NEW d, NEW r, Final(dk, Stopped(s), d, r)
    PROVE  Final(dk, s, d, r)
<1>1. /\ Len(Stopped(s)) = Len(s)
      /\ \A i \in 1..Len(s) : /\ Stopped(s)[i].op = s[i].op /\ Stopped(s)[i].id = s[i].id
                              /\ Stopped(s)[i].record = s[i].record
  BY CancelFacts
<1> QED BY <1>1 DEF Final, Changes

(* After one request alone there is one outcome.                           *)
LEMMA FinalNone ==
    ASSUME NEW dk, NEW d
    PROVE  \A r : Final(dk, <<>>, d, r) <=> r = dk[d]
<1>1. Len(<<>>) = 0
  BY EmptySeq
<1> QED BY <1>1 DEF Final

(* Nothing of the document is touched.                                     *)
LEMMA DueSame ==
    ASSUME NEW d \in DocIds, Due(d),
           plan'[d] # None => plan[d] # None /\ Content(plan'[d]) = Content(plan[d]),
           Waits(d)' <=> Waits(d), Waits(d) => pending' = pending,
           \A t : t.kind \in Edits \cup {"queue"} /\ t.id = d =>
                     (t \in Thens(requests') <=> t \in Thens(requests)),
           plan'[d] # None =>
              \A r \in Records \cup {None} :
                 Final(disk', requests', d, r) => Final(disk, requests, d, r)
    PROVE  Due(d)'
<1> SUFFICES ASSUME plan'[d] # None PROVE Due(d)'
  BY DEF Due
<1>1. plan[d] # None /\ Content(plan'[d]) = Content(plan[d])
  OBVIOUS
<1>2. (Queued(d)' <=> Queued(d)) /\ (Changing(d)' <=> Changing(d))
  BY DEF Queued, Changing
<1>3. Waits(d)' => Content(pending'.record) = Content(plan'[d])
  BY <1>1 DEF Due
<1>4. \A t \in Thens(requests') :
         t.kind = "queue" /\ t.id = d => Content(t.record) = Content(plan'[d])
  BY <1>1 DEF Due
<1>5. \/ Waits(d)' \/ Queued(d)'
      \/ \A r \in Records \cup {None} : Final(disk', requests', d, r) =>
            /\ r # None
            /\ ~Changing(d)' => Content(r) = Content(plan'[d])
            /\ \A t \in Thens(requests') : t.kind \in Edits /\ t.id = d =>
                  Content(Merged(t.kind, r, t.record)) = Content(plan'[d])
  BY <1>1, <1>2 DEF Due
<1> QED BY <1>3, <1>4, <1>5 DEF Due

(* Its record is going to be what the tab holds.                           *)
LEMMA DueWritten ==
    ASSUME NEW d \in DocIds, ~Waits(d)',
           \A t \in Thens(requests') : t.kind \in Edits \cup {"queue"} => t.id # d,
           \A r \in Records \cup {None} :
              Final(disk', requests', d, r) => r # None /\ Content(r) = Content(plan'[d])
    PROVE  Due(d)'
BY DEF Due

(* It waits to be written.                                                 *)
LEMMA DueWaiting ==
    ASSUME NEW d \in DocIds, Waits(d)', Content(pending'.record) = Content(plan'[d]),
           \A t \in Thens(requests') : t.kind # "queue"
    PROVE  Due(d)'
BY DEF Due

LEMMA PlainContent ==
    \A r \in Records : /\ Content(Plain(r)) = Content(r) /\ Plain(r).rows = r.rows
                       /\ Plain(r).shouldFetch = FALSE
BY DEF Plain, Content, Records

LEMMA SameRows ==
    \A r, u \in Records : Content(r) = Content(u) => r.rows = u.rows
BY DEF Content

-----------------------------------------------------------------------------
(* The record is what the tab last held                                    *)

LEMMA InitStored == Init => Stored
BY DEF Init, Stored, Due

LEMMA PopFinal ==
    ASSUME Shapes, InTurn, Tidy, Answered,
           \/ Head1.op = "get" /\ disk' = disk
           \/ Head1.op # "get" /\ disk' = [disk EXCEPT ![Head1.id] = Head1.record]
    PROVE  \A d \in DocIds : \A r : Final(disk', Rest, d, r) => Final(disk, requests, d, r)
<1>1. Good(requests) /\ requests # <<>> /\ disk \in [DocIds -> Records \cup {None}]
  BY DEF Shapes, Answered
<1> QED BY <1>1, FinalPop DEF Head1, Rest

LEMMA PutDoneStored ==
    ASSUME Shapes, InTurn, Tidy, Stored, PutDone
    PROVE  Stored'
<1>1. /\ Answered /\ Head1.op = "put" /\ disk' = [disk EXCEPT ![Head1.id] = Head1.record]
      /\ plan' = plan /\ Good(Rest) /\ Thens(requests) = Thens(Rest) \cup {Head1.then}
      /\ Special(Head1.then) => Rest = <<>> /\ Thens(Rest) = {}
      /\ Head1.then \in Follow
  BY AfterHead, HeadFacts DEF PutDone
<1>2. \A d \in DocIds : \A r : Final(disk', Rest, d, r) => Final(disk, requests, d, r)
  BY <1>1, PopFinal
<1> SUFFICES ASSUME NEW d \in DocIds PROVE Due(d)'
  BY DEF Stored
<1>3. Due(d)
  BY DEF Stored
<1>4. CASE Head1.then.kind = "none"
  <2>1. requests' = Rest /\ pending' = pending
    BY <1>4, PutDoneTidy, Plainly
  <2>2. \A t : t.kind \in Edits \cup {"queue"} /\ t.id = d =>
                  (t \in Thens(requests') <=> t \in Thens(requests))
    BY <1>1, <1>4, <2>1, Plainly
  <2> QED BY <1>1, <1>2, <1>3, <2>1, <2>2, DueSame DEF Waits
<1>5. CASE Head1.then.kind = "queue"
  <2> DEFINE record == Head1.then.record
             q == Put(open, record, NoThen)
  <2>1. /\ pending = None /\ pending' = None /\ Rest = <<>> /\ Head1.then.id = open
        /\ record \in Records /\ requests' = Append(Rest, q) /\ open \in DocIds
    BY <1>1, <1>5, PutDoneTidy, Plainly, HeadFacts DEF Sound
  <2>2. q \in Request /\ q.then.kind = "none" /\ q.op = "put" /\ q.id = open /\ q.record = record
    BY <2>1, Makes, Plainly
  <2>3. plan[d] # None /\ d = open => Content(record) = Content(plan[d])
    BY <1>1, <1>3, <1>5, <2>1 DEF Due
  <2> HIDE DEF q, record
  <2>4. Thens(requests') = {q.then} /\ Thens(Rest) = {}
    BY <1>1, <1>5, <2>1, <2>2, LonePush DEF Special
  <2>5. \A r : Final(disk', requests', d, r) => /\ Changes(q, d) => r = q.record
                                                /\ ~Changes(q, d) => Final(disk', Rest, d, r)
    <3> TAKE r
    <3> HAVE Final(disk', requests', d, r)
    <3>1. Final(disk', Append(Rest, q), d, r)
      BY <2>1
    <3> QED BY <1>1, <2>2, <3>1, FinalPush
  <2>6. CASE d = open
    <3>1. Changes(q, d) /\ record # None
      BY <2>1, <2>2, <2>6, Numbers DEF Changes
    <3>2. CASE plan[d] # None
      BY <1>1, <2>1, <2>2, <2>3, <2>4, <2>5, <2>6, <3>1, <3>2, DueWritten, Plainly DEF Waits
    <3>3. CASE plan[d] = None
      BY <1>1, <3>3 DEF Due
    <3> QED BY <3>2, <3>3
  <2>7. CASE d # open
    <3>1. ~Changes(q, d)
      BY <2>2, <2>7 DEF Changes
    <3>2. \A t : t.kind \in Edits \cup {"queue"} /\ t.id = d =>
                    (t \in Thens(requests') <=> t \in Thens(requests))
      BY <1>1, <2>1, <2>2, <2>4, <2>7, Plainly
    <3> QED BY <1>1, <1>2, <1>3, <2>1, <2>5, <3>1, <3>2, DueSame DEF Waits
  <2> QED BY <2>6, <2>7
<1>6. CASE Head1.then.kind \in Edits \cup {"save"}
  <2> DEFINE q == Get(Head1.then.id, Head1.then)
  <2>1. /\ pending' = pending /\ Head1.then.id \in DocIds /\ requests' = Append(Rest, q)
    BY <1>6, PutDoneTidy, Plainly
  <2>2. q \in Request /\ q.then = Head1.then /\ q.op = "get"
    BY <1>1, <2>1, Asks
  <2> HIDE DEF q
  <2>3. Thens(requests') = Thens(requests)
    BY <1>1, <1>6, <2>1, <2>2, ThensPush
  <2>4. \A r : Final(disk', requests', d, r) => Final(disk', Rest, d, r)
    BY <1>1, <2>1, <2>2, FinalPush DEF Changes
  <2> QED BY <1>1, <1>2, <1>3, <2>1, <2>3, <2>4, DueSame DEF Waits
<1> QED BY <1>4, <1>5, <1>6, PutDoneTidy

LEMMA EditReadStored ==
    ASSUME Shapes, InTurn, Tidy, Stored, EditRead
    PROVE  Stored'
<1> DEFINE then == Head1.then
           new == Merged(then.kind, disk[open], then.record)
           q == Put(open, new, NoThen)
<1>1. /\ Answered /\ Head1.op = "get" /\ open \in DocIds /\ then.id = open
      /\ then.kind \in Edits /\ then.record \in Records /\ Rest = <<>> /\ Thens(Rest) = {}
      /\ UNCHANGED <<disk, pending, plan>>
  BY EditReadTidy
<1>2. /\ \/ disk[open] = None /\ requests' = Rest
         \/ disk[open] \in Records /\ new \in Records /\ requests' = Append(Rest, q)
  BY EditReadTidy
<1>3. /\ Good(Rest) /\ Thens(requests) = {then}
  BY <1>1, AfterHead
<1>4. \A d \in DocIds : \A r : Final(disk, Rest, d, r) => Final(disk, requests, d, r)
  BY <1>1, PopFinal
<1>5. \A d \in DocIds : Final(disk, requests, d, disk[d])
  BY <1>1, <1>4, FinalNone
<1>6. new \in Records => /\ q \in Request /\ q.then.kind = "none" /\ q.op = "put" /\ q.id = open
                         /\ q.record = new
  <2> HIDE DEF new
  <2> QED BY <1>1, Makes, Plainly
<1> SUFFICES ASSUME NEW d \in DocIds PROVE Due(d)'
  BY DEF Stored
<1>7. Due(d) /\ disk[d] \in Records \cup {None}
  BY DEF Stored, Shapes
<1>8. CASE d # open
  <2>1. \A t \in Thens(requests) \cup Thens(requests') :
           t.kind \in Edits \cup {"queue"} => t.id = open
    <3>1. CASE requests' = Rest
      BY <1>1, <1>3, <3>1
    <3>2. CASE new \in Records /\ requests' = Append(Rest, q)
      <4> HIDE DEF q, new, then
      <4>1. Thens(requests') = {q.then}
        BY <1>1, <1>3, <1>6, <3>2, LonePush
      <4> QED BY <1>1, <1>3, <1>6, <3>2, <4>1, Plainly
    <3> QED BY <1>2, <3>1, <3>2
  <2>2. \A t : t.kind \in Edits \cup {"queue"} /\ t.id = d =>
                  (t \in Thens(requests') <=> t \in Thens(requests))
    BY <1>8, <2>1
  <2>3. \A r : Final(disk, requests', d, r) => Final(disk, Rest, d, r)
    <3>1. CASE requests' = Rest
      BY <3>1
    <3>2. CASE new \in Records /\ requests' = Append(Rest, q)
      <4> HIDE DEF q, new
      <4> QED BY <1>3, <1>6, <1>8, <3>2, FinalPush DEF Changes
    <3> QED BY <1>2, <3>1, <3>2
  <2> QED BY <1>1, <1>4, <1>7, <2>2, <2>3, DueSame DEF Waits
<1>9. CASE d = open
  <2>1. CASE plan[d] = None
    BY <1>1, <2>1 DEF Due
  <2>2. CASE plan[d] # None /\ Waits(d)
    <3>1. \A t \in Thens(requests') : t.kind # "queue"
      <4>1. CASE requests' = Rest
        BY <1>1, <4>1
      <4>2. CASE new \in Records /\ requests' = Append(Rest, q)
        <5> HIDE DEF q, new, then
        <5>1. Thens(requests') = {q.then}
          BY <1>1, <1>3, <1>6, <4>2, LonePush
        <5> QED BY <1>6, <4>2, <5>1
      <4> QED BY <1>2, <4>1, <4>2
    <3>2. Content(pending.record) = Content(plan[d])
      BY <1>7, <2>2 DEF Due
    <3> QED BY <1>1, <2>2, <3>1, <3>2, DueWaiting DEF Waits
  <2>3. CASE plan[d] # None /\ ~Waits(d)
    <3>1. ~Queued(d)
      BY <1>1, <1>3, Plainly DEF Queued
    <3>2. disk[d] # None /\ Content(Merged(then.kind, disk[d], then.record)) = Content(plan[d])
      BY <1>1, <1>3, <1>5, <1>7, <1>9, <2>3, <3>1 DEF Due
    <3>3. new \in Records /\ requests' = Append(Rest, q) /\ Content(new) = Content(plan[d])
      BY <1>2, <1>9, <3>2
    <3> HIDE DEF new, q, then
    <3>4. Thens(requests') = {q.then}
      BY <1>1, <1>3, <1>6, <3>3, LonePush
    <3>5. \A r : Final(disk', requests', d, r) => r = new
      BY <1>1, <1>3, <1>6, <1>9, <3>3, FinalPush DEF Changes
    <3>6. \A t \in Thens(requests') : t.kind \in Edits \cup {"queue"} => t.id # d
      BY <1>6, <3>3, <3>4, Plainly
    <3>7. ~Waits(d)'
      BY <1>1, <2>3 DEF Waits
    <3>8. \A r \in Records \cup {None} :
             Final(disk', requests', d, r) => r # None /\ Content(r) = Content(plan'[d])
      BY <1>1, <3>3, <3>5, Numbers
    <3> QED BY <3>6, <3>7, <3>8, DueWritten
  <2> QED BY <2>1, <2>2, <2>3
<1> QED BY <1>8, <1>9

LEMMA PopStored ==
    ASSUME Shapes, InTurn, Tidy, Stored, Deleted \/ Ignored \/ LoadRead
    PROVE  Stored'
<1>1. /\ Answered /\ requests' = Rest /\ ~Special(Head1.then) /\ UNCHANGED <<pending, plan>>
  BY PopTidy
<1>2. \/ Head1.op = "get" /\ disk' = disk
      \/ Head1.op # "get" /\ disk' = [disk EXCEPT ![Head1.id] = Head1.record]
  BY HeadFacts DEF Deleted, Ignored, LoadRead, Sound
<1>3. \A d \in DocIds : \A r : Final(disk', requests', d, r) => Final(disk, requests, d, r)
  BY <1>1, <1>2, PopFinal
<1>4. Thens(requests) = Thens(requests') \cup {Head1.then}
  BY <1>1, AfterHead
<1>5. \A t : t.kind \in Edits \cup {"queue"} =>
                (t \in Thens(requests') <=> t \in Thens(requests))
  BY <1>1, <1>4 DEF Special
<1> SUFFICES ASSUME NEW d \in DocIds PROVE Due(d)'
  BY DEF Stored
<1>6. Due(d)
  BY DEF Stored
<1> QED BY <1>1, <1>3, <1>5, <1>6, DueSame DEF Waits

(* A request that writes a document what the tab holds of it.              *)
LEMMA WriteDue ==
    ASSUME Shapes, NEW d \in DocIds, NEW q \in Request,
           requests' = Append(requests, q), ~Waits(d)',
           Changes(q, d), q.record \in Records, Content(q.record) = Content(plan'[d]),
           \A t \in Thens(requests) : t.kind \in {"none", "load"},
           q.then.kind \in Edits \cup {"queue"} => q.then.id # d
    PROVE  Due(d)'
<1>1. Good(requests) /\ q.record # None
  BY Numbers DEF Shapes
<1>2. Thens(requests') = Thens(requests) \cup {q.then}
  BY <1>1, ThensPush
<1>3. \A t \in Thens(requests') : t.kind \in Edits \cup {"queue"} => t.id # d
  BY <1>2, Plainly
<1>4. \A r : Final(disk', requests', d, r) => r = q.record
  <2> TAKE r
  <2> HAVE Final(disk', requests', d, r)
  <2>1. Final(disk', Append(requests, q), d, r)
    OBVIOUS
  <2> QED BY <1>1, <2>1, FinalPush
<1> QED BY <1>1, <1>3, <1>4, DueWritten

(* A request that has nothing to do with it.                               *)
LEMMA ElseDue ==
    ASSUME Shapes, NEW d \in DocIds, Due(d), NEW q \in Request,
           requests' = Append(requests, q), disk' = disk,
           Waits(d)' <=> Waits(d), Waits(d) => pending' = pending, ~Changes(q, d),
           plan'[d] # None => plan[d] # None /\ Content(plan'[d]) = Content(plan[d]),
           q.then.kind \in Edits \cup {"queue"} => q.then.id # d
    PROVE  Due(d)'
<1>1. Good(requests)
  BY DEF Shapes
<1>2. Thens(requests') = Thens(requests) \cup {q.then}
  BY <1>1, ThensPush
<1>3. \A t : t.kind \in Edits \cup {"queue"} /\ t.id = d =>
                (t \in Thens(requests') <=> t \in Thens(requests))
  BY <1>2
<1>4. \A r : Final(disk', requests', d, r) => Final(disk, requests, d, r)
  <2> TAKE r
  <2> HAVE Final(disk', requests', d, r)
  <2>1. Final(disk, Append(requests, q), d, r)
    OBVIOUS
  <2> QED BY <1>1, <2>1, FinalPush
<1> QED BY <1>3, <1>4, DueSame

LEMMA TimerStored ==
    ASSUME Calm, Shapes, InTurn, Tidy, Stored, TimerFires
    PROVE  Stored'
<1> DEFINE q == Put(open, pending.record, NoThen)
<1>1. /\ pending # None /\ pending.id = open /\ open \in DocIds /\ pending.record \in Records
      /\ \A t \in Thens(requests) : t.kind \in {"none", "load"}
      /\ requests' = Append(requests, q) /\ pending' = None
      /\ UNCHANGED <<disk, plan>>
  BY TimerTidy
<1>2. /\ q \in Request /\ q.op = "put" /\ q.id = open /\ q.record = pending.record
      /\ q.then.kind = "none"
  BY <1>1, Makes, Plainly
<1> HIDE DEF q
<1> SUFFICES ASSUME NEW d \in DocIds PROVE Due(d)'
  BY DEF Stored
<1>3. Due(d)
  BY DEF Stored
<1>4. ~Waits(d)' /\ (Waits(d) <=> d = open) /\ (Changes(q, d) <=> d = open)
  BY <1>1, <1>2 DEF Waits, Changes
<1>5. CASE plan[d] = None
  BY <1>1, <1>5 DEF Due
<1>6. CASE plan[d] # None /\ d = open
  <2>1. Content(pending.record) = Content(plan[d])
    BY <1>3, <1>4, <1>6 DEF Due
  <2> QED BY <1>1, <1>2, <1>4, <1>6, <2>1, WriteDue, Plainly
<1>7. CASE d # open
  BY <1>1, <1>2, <1>3, <1>4, <1>7, ElseDue, Plainly
<1> QED BY <1>5, <1>6, <1>7

LEMMA StrokeStored ==
    ASSUME Calm, Shapes, InTurn, Tidy, Stored, Stroke
    PROVE  Stored'
<1>1. PICK held \in Records : /\ plan' = [plan EXCEPT ![open] = held]
                              /\ pending' = [id |-> open, record |-> Plain(held)]
  BY StrokeTidy
<1>2. /\ open \in DocIds /\ requests' = requests /\ disk' = disk
      /\ \A t \in Thens(requests) : t.kind # "queue"
  BY StrokeTidy, Plainly
<1>3. /\ pending' # None /\ pending'.id = open /\ Content(pending'.record) = Content(held)
  BY <1>1, <1>2, RecordFacts, PendingFacts, PlainContent
<1> SUFFICES ASSUME NEW d \in DocIds PROVE Due(d)'
  BY DEF Stored
<1>4. Due(d)
  BY DEF Stored
<1>5. CASE d = open
  <2>1. plan'[d] = held
    BY <1>1, <1>5 DEF Shapes
  <2> QED BY <1>2, <1>3, <1>5, <2>1, DueWaiting DEF Waits
<1>6. CASE d # open
  <2>1. plan'[d] = plan[d] /\ ~Waits(d) /\ ~Waits(d)'
    BY <1>1, <1>3, <1>6 DEF Shapes, Waits, Tidy
  <2> QED BY <1>2, <1>4, <2>1, DueSame
<1> QED BY <1>5, <1>6

LEMMA UndoStored ==
    ASSUME Calm, Shapes, InTurn, Tidy, Stored, NEW s \in Stamps, Undo(s)
    PROVE  Stored'
<1>1. PICK held \in Records : /\ plan' = [plan EXCEPT ![open] = held]
                              /\ requests' = Append(requests, Put(open, Plain(held), NoThen))
  BY UndoTidy
<1> DEFINE q == Put(open, Plain(held), NoThen)
<1>2. /\ open \in DocIds /\ pending' = None /\ disk' = disk
      /\ \A t \in Thens(requests) : t.kind \in {"none", "load"}
  BY UndoTidy
<1>3. Plain(held) \in Records /\ Content(Plain(held)) = Content(held)
  BY RecordFacts, PlainContent
<1>4. /\ q \in Request /\ q.op = "put" /\ q.id = open /\ q.record = Plain(held)
      /\ q.then.kind = "none" /\ requests' = Append(requests, q)
  BY <1>1, <1>2, <1>3, Makes, Plainly
<1> HIDE DEF q
<1> SUFFICES ASSUME NEW d \in DocIds PROVE Due(d)'
  BY DEF Stored
<1>5. Due(d) /\ ~Waits(d)'
  BY <1>2 DEF Stored, Waits
<1>6. CASE d = open
  <2>1. plan'[d] = held
    BY <1>1, <1>6 DEF Shapes
  <2> QED BY <1>2, <1>3, <1>4, <1>5, <1>6, <2>1, WriteDue, Plainly DEF Changes
<1>7. CASE d # open
  <2>1. plan'[d] = plan[d] /\ ~Waits(d)
    BY <1>1, <1>7 DEF Shapes, Waits, Tidy
  <2> QED BY <1>2, <1>4, <1>5, <1>7, <2>1, ElseDue, Plainly DEF Changes
<1> QED BY <1>6, <1>7

LEMMA MetadataStored ==
    ASSUME Calm, Shapes, InTurn, Tidy, Stored, SetCount \/ \E kind \in Flushing : EditMetadata(kind)
    PROVE  Stored'
<1>1. PICK held \in Records, t \in Follow, q \in Request :
         /\ plan' = [plan EXCEPT ![open] = held] /\ held.rows = plan[open].rows
         /\ t.kind \in Edits /\ t.id = open /\ t.record = held
         /\ requests' = Append(requests, q) /\ q.then = t
         /\ \/ pending = None /\ q.op = "get"
            \/ pending # None /\ q.op = "put" /\ q.id = open /\ q.record = pending.record
         /\ \A r \in Records : Content(r) = Content(plan[open]) =>
               Content(Merged(t.kind, r, held)) = Content(held)
  BY MetadataTidy
<1>2. /\ open \in DocIds /\ pending' = None /\ disk' = disk /\ plan[open] \in Records
      /\ pending # None => pending.id = open /\ pending.record \in Records
      /\ \A u \in Thens(requests) : u.kind \in {"none", "load"}
  BY MetadataTidy
<1>3. Good(requests)
  BY DEF Shapes
<1>4. Thens(requests') = Thens(requests) \cup {t}
  BY <1>1, <1>3, ThensPush
<1> SUFFICES ASSUME NEW d \in DocIds PROVE Due(d)'
  BY DEF Stored
<1>5. Due(d) /\ ~Waits(d)'
  BY <1>2 DEF Stored, Waits
<1>6. CASE d = open
  <2>1. plan'[d] = held /\ plan[d] # None
    BY <1>1, <1>2, <1>6, Numbers DEF Shapes
  <2>2. ~Queued(d) /\ ~Changing(d)
    BY <1>2, Plainly DEF Queued, Changing
  <2>3. ASSUME NEW r \in Records \cup {None}, Final(disk', requests', d, r)
        PROVE  r \in Records /\ Content(r) = Content(plan[open])
    <3>1. Final(disk, Append(requests, q), d, r)
      BY <1>1, <1>2, <2>3
    <3>2. CASE pending = None
      <4>1. Final(disk, requests, d, r)
        BY <1>1, <1>3, <3>1, <3>2, FinalPush DEF Changes
      <4> QED BY <1>5, <1>6, <2>1, <2>2, <3>2, <4>1 DEF Due, Waits
    <3>3. CASE pending # None
      <4>1. r = pending.record
        BY <1>1, <1>3, <1>6, <3>1, <3>3, FinalPush DEF Changes
      <4> QED BY <1>2, <1>5, <1>6, <2>1, <3>3, <4>1 DEF Due, Waits
    <3> QED BY <3>2, <3>3
  <2>4. ASSUME NEW r \in Records \cup {None}, Final(disk', requests', d, r)
        PROVE  /\ r # None
               /\ Content(Merged(t.kind, r, t.record)) = Content(plan'[d])
    BY <1>1, <2>1, <2>3, <2>4, Numbers
  <2>5. Changing(d)' /\ \A u \in Thens(requests') : u.kind \in Edits => u = t
    BY <1>1, <1>2, <1>4, <1>6, Plainly DEF Changing
  <2>6. \A u \in Thens(requests') : u.kind # "queue"
    BY <1>1, <1>2, <1>4, Plainly
  <2> QED BY <1>5, <2>4, <2>5, <2>6 DEF Due
<1>7. CASE d # open
  <2>1. plan'[d] = plan[d] /\ ~Waits(d)
    BY <1>1, <1>7 DEF Shapes, Waits, Tidy
  <2>2. ~Changes(q, d)
    BY <1>1, <1>7 DEF Changes
  <2> QED BY <1>1, <1>2, <1>5, <1>7, <2>1, <2>2, ElseDue
<1> QED BY <1>6, <1>7

LEMMA RoutesStored ==
    ASSUME Calm, Shapes, InTurn, Tidy, Loads, Stored, NEW d0 \in DocIds, Delete(d0) \/ StartOpen(d0)
    PROVE  Stored'
<1> SUFFICES ASSUME NEW d \in DocIds PROVE Due(d)'
  BY DEF Stored
<1>0. Due(d)
  BY DEF Stored
<1>1. CASE Delete(d0)
  <2>1. PICK q \in Request : /\ requests' = Append(requests, q) /\ q.id = d0 /\ q.then = NoThen
    BY <1>1, DeleteTidy
  <2>2. /\ plan' = [plan EXCEPT ![d0] = None] /\ UNCHANGED <<disk, pending>>
    BY <1>1, DeleteTidy
  <2>3. CASE d = d0
    BY <2>2, <2>3 DEF Due, Shapes
  <2>4. CASE d # d0
    <3>1. plan'[d] = plan[d] /\ ~Changes(q, d)
      BY <2>1, <2>2, <2>4 DEF Shapes, Changes
    <3> QED BY <1>0, <2>1, <2>2, <3>1, ElseDue, Plainly DEF Waits
  <2> QED BY <2>3, <2>4
<1>2. CASE StartOpen(d0)
  <2>1. PICK q \in Request : /\ requests' = Append(Stopped(requests), q)
                             /\ q.op = "get" /\ q.then.kind = "load"
    BY <1>2, StartOpenTidy
  <2>2. /\ UNCHANGED <<disk, pending, plan>>
        /\ \A t \in Thens(requests) : t.kind \in {"none", "load"}
        /\ \A t \in Thens(Stopped(requests)) : t.kind = "none"
    BY <1>2, StartOpenTidy
  <2>3. Good(requests) /\ Good(Stopped(requests))
    BY CancelFacts DEF Shapes
  <2>4. Thens(requests') = Thens(Stopped(requests)) \cup {q.then}
    BY <2>1, <2>3, ThensPush
  <2>5. \A t : t.kind \in Edits \cup {"queue"} /\ t.id = d =>
                  (t \in Thens(requests') <=> t \in Thens(requests))
    BY <2>1, <2>2, <2>4, Plainly
  <2>6. \A r : Final(disk', requests', d, r) => Final(disk, requests, d, r)
    <3> TAKE r
    <3> HAVE Final(disk', requests', d, r)
    <3>1. Final(disk, Append(Stopped(requests), q), d, r)
      BY <2>1, <2>2
    <3>2. Final(disk, Stopped(requests), d, r)
      BY <2>1, <2>3, <3>1, FinalPush DEF Changes
    <3> QED BY <2>3, <3>2, FinalStopped
  <2> QED BY <1>0, <2>2, <2>5, <2>6, DueSame DEF Waits
<1> QED BY <1>1, <1>2

LEMMA ShowStored ==
    ASSUME Calm, Shapes, InTurn, Tidy, Loads, Stored, OpenOnline \/ OpenOffline
    PROVE  Stored'
<1>1. PICK record \in Records, q \in Request :
         /\ loading.id \in DocIds /\ loading.id # open
         /\ plan' = [plan EXCEPT ![loading.id] = record] /\ pending' = None
         /\ requests' = Append(requests, q) /\ q.op = "put"
         /\ \/ /\ pending = None /\ q.id = loading.id /\ q.record = Plain(record)
               /\ q.then.kind = "none"
            \/ /\ pending # None /\ pending.id = open /\ q.id = open
               /\ pending.record \in Records /\ open \in DocIds
               /\ q.record = pending.record /\ q.then.kind = "queue"
               /\ q.then.id = loading.id /\ q.then.record = Plain(record)
         /\ \A t \in Thens(requests) : t.kind \in {"none", "load"}
         /\ disk' = disk
  BY ShowTidy
<1>2. Plain(record) \in Records /\ Content(Plain(record)) = Content(record) /\ Good(requests)
  BY RecordFacts, PlainContent DEF Shapes
<1>3. Thens(requests') = Thens(requests) \cup {q.then}
  BY <1>1, <1>2, ThensPush
<1> SUFFICES ASSUME NEW d \in DocIds PROVE Due(d)'
  BY DEF Stored
<1>4. Due(d) /\ ~Waits(d)'
  BY <1>1 DEF Stored, Waits
<1>5. CASE d = loading.id
  <2>1. plan'[d] = record
    BY <1>1, <1>5 DEF Shapes
  <2>2. CASE pending = None
    <3>1. Changes(q, d) /\ q.then.kind = "none"
      BY <1>1, <1>5, <2>2 DEF Changes
    <3> QED BY <1>1, <1>2, <1>4, <2>1, <2>2, <3>1, WriteDue, Plainly
  <2>3. CASE pending # None
    <3>1. Queued(d)'
      BY <1>1, <1>3, <1>5, <2>3 DEF Queued
    <3>2. \A t \in Thens(requests') : t.kind = "queue" => Content(t.record) = Content(record)
      BY <1>1, <1>2, <1>3, <2>3
    <3> QED BY <1>4, <2>1, <3>1, <3>2 DEF Due
  <2> QED BY <2>2, <2>3
<1>6. CASE d # loading.id
  <2>1. plan'[d] = plan[d]
    BY <1>1, <1>6 DEF Shapes
  <2>2. CASE Waits(d)
    <3>1. pending # None /\ d = open /\ Changes(q, d)
      BY <1>1, <2>2 DEF Waits, Changes
    <3>2. CASE plan[d] = None
      BY <2>1, <3>2 DEF Due
    <3>3. CASE plan[d] # None
      <4>1. Content(pending.record) = Content(plan[d])
        BY <1>4, <2>2, <3>3 DEF Due
      <4> QED BY <1>1, <1>4, <2>1, <3>1, <4>1, WriteDue
    <3> QED BY <3>2, <3>3
  <2>3. CASE ~Waits(d)
    <3>1. ~Changes(q, d)
      BY <1>1, <1>6, <2>3 DEF Changes, Waits
    <3>2. q.then.kind \in Edits \cup {"queue"} => q.then.id # d
      BY <1>1, <1>6, Plainly
    <3> QED BY <1>1, <1>4, <2>1, <2>3, <3>1, <3>2, ElseDue
  <2> QED BY <2>2, <2>3
<1> QED BY <1>5, <1>6

LEMMA SavesStored ==
    ASSUME Calm, Shapes, InTurn, Tidy, Stored, StartSave \/ \E b \in BOOLEAN : SaveRead(b)
    PROVE  Stored'
<1> SUFFICES ASSUME NEW d \in DocIds PROVE Due(d)'
  BY DEF Stored
<1>0. Due(d)
  BY DEF Stored
<1>1. CASE StartSave
  <2>1. PICK q \in Request :
           /\ requests' = Append(requests, q) /\ q.then.kind = "save"
           /\ \/ pending = None /\ q.op = "get"
              \/ pending # None /\ q.op = "put" /\ q.id = open /\ q.record = pending.record
    BY <1>1, StartSaveTidy
  <2>2. /\ pending' = None /\ UNCHANGED <<disk, plan>>
        /\ pending # None => pending.id = open /\ pending.record \in Records
        /\ \A t \in Thens(requests) : t.kind \in {"none", "load"}
    BY <1>1, StartSaveTidy
  <2>3. ~Waits(d)' /\ (Waits(d) => Changes(q, d)) /\ (~Waits(d) => ~Changes(q, d))
    BY <2>1, <2>2 DEF Waits, Changes
  <2>4. CASE plan[d] # None /\ Waits(d)
    <3>1. Content(pending.record) = Content(plan[d]) /\ pending # None
      BY <1>0, <2>4 DEF Due, Waits
    <3> QED BY <2>1, <2>2, <2>3, <2>4, <3>1, WriteDue, Plainly DEF Changes
  <2>5. CASE ~Waits(d)
    BY <1>0, <2>1, <2>2, <2>3, <2>5, ElseDue, Plainly
  <2>6. CASE plan[d] = None
    BY <2>2, <2>6 DEF Due
  <2> QED BY <2>4, <2>5, <2>6
<1>2. ASSUME NEW b \in BOOLEAN, SaveRead(b) PROVE Due(d)'
  <2>1. /\ Answered /\ Head1.op = "get" /\ Head1.then.kind = "save"
        /\ Thens(Rest) = {} /\ open \in DocIds /\ pending = None
        /\ UNCHANGED <<disk, pending>> /\ plan[open] \in Records
    BY <1>2, SaveReadTidy
  <2>2. /\ Good(Rest) /\ Thens(requests) = {Head1.then}
        /\ \A r : Final(disk, Rest, d, r) => Final(disk, requests, d, r)
    BY <2>1, AfterHead, PopFinal
  <2>3. CASE requests' = Rest /\ UNCHANGED <<server, plan>>
    <3>1. \A t : t.kind \in Edits \cup {"queue"} /\ t.id = d =>
                    (t \in Thens(requests') <=> t \in Thens(requests))
      BY <2>1, <2>2, <2>3, Plainly
    <3> QED BY <1>0, <2>1, <2>2, <2>3, <3>1, DueSame DEF Waits
  <2>4. ASSUME NEW saved \in Records,
               /\ Content(saved) = Content(plan[open])
               /\ requests' = Append(Rest, Put(open, saved, NoThen))
               /\ plan' = [plan EXCEPT ![open] = [plan[open] EXCEPT !.dirty = FALSE]]
        PROVE  Due(d)'
    <3> DEFINE q == Put(open, saved, NoThen)
    <3>1. /\ q \in Request /\ q.then.kind = "none" /\ q.op = "put" /\ q.id = open
          /\ q.record = saved /\ requests' = Append(Rest, q)
      BY <2>1, <2>4, Makes, Plainly
    <3> HIDE DEF q
    <3>2. Thens(requests') = {q.then}
      BY <2>1, <2>2, <3>1, LonePush
    <3>3. plan'[open] \in Records /\ Content(plan'[open]) = Content(plan[open])
      BY <2>1, <2>4 DEF Shapes, Content, Records
    <3>4. \A t \in Thens(requests') : t.kind \notin Edits \cup {"queue"}
      BY <3>1, <3>2, Plainly
    <3>5. ASSUME NEW r, Final(disk', requests', d, r)
          PROVE  IF Changes(q, d) THEN r = saved ELSE Final(disk, requests, d, r)
      <4>1. Final(disk, Append(Rest, q), d, r)
        BY <2>1, <3>1, <3>5
      <4> QED BY <2>2, <3>1, <4>1, FinalPush
    <3>6. CASE d = open
      <4>1. ~Waits(d)'
        BY <2>1 DEF Waits
      <4>2. \A r \in Records \cup {None} :
               Final(disk', requests', d, r) => r # None /\ Content(r) = Content(plan'[d])
        BY <2>4, <3>1, <3>3, <3>5, <3>6, Numbers DEF Changes
      <4> QED BY <3>4, <4>1, <4>2, DueWritten
    <3>7. CASE d # open
      <4>1. plan'[d] = plan[d]
        BY <2>4, <3>7 DEF Shapes
      <4>2. \A t : t.kind \in Edits \cup {"queue"} /\ t.id = d =>
                      (t \in Thens(requests') <=> t \in Thens(requests))
        BY <2>1, <2>2, <3>4, Plainly
      <4>3. \A r : Final(disk', requests', d, r) => Final(disk, requests, d, r)
        BY <3>1, <3>5, <3>7 DEF Changes
      <4> QED BY <1>0, <2>1, <4>1, <4>2, <4>3, DueSame DEF Waits
    <3> QED BY <3>6, <3>7
  <2> QED BY <1>2, <2>3, <2>4, SaveReadTidy
<1> QED BY <1>1, <1>2

LEMMA StoredStep ==
    Calm /\ Shapes /\ InTurn /\ Tidy /\ Loads /\ Stored /\ [Next]_vars => Stored'
<1> SUFFICES ASSUME Calm, Shapes, InTurn, Tidy, Loads, Stored, [Next]_vars PROVE Stored'
  OBVIOUS
<1>1. CASE PutDone \/ EditRead \/ Deleted \/ Ignored \/ LoadRead \/ TimerFires
  BY <1>1, PutDoneStored, EditReadStored, PopStored, TimerStored
<1>2. CASE Stroke \/ SetCount \/ (\E s \in Stamps : Undo(s))
           \/ \E kind \in Flushing : EditMetadata(kind)
  BY <1>2, StrokeStored, UndoStored, MetadataStored
<1>3. CASE \E d \in DocIds : Delete(d) \/ StartOpen(d)
  BY <1>3, RoutesStored
<1>4. CASE OpenOnline \/ OpenOffline
  BY <1>4, ShowStored
<1>5. CASE StartSave \/ \E b \in BOOLEAN : SaveRead(b)
  BY <1>5, SavesStored
<1>6. ASSUME NEW b \in BOOLEAN, Exit(b) PROVE Stored'
  BY <1>6 DEF Exit, Stored, Due
<1>7. CASE OpenFails \/ UNCHANGED vars
  <2>1. UNCHANGED <<disk, requests, pending, plan>>
    BY <1>7 DEF OpenFails, vars
  <2> QED BY <2>1 DEF Stored, Due, Waits, Queued, Changing
<1> QED BY <1>1, <1>2, <1>3, <1>4, <1>5, <1>6, <1>7 DEF Next

(* Once the timer has fired and IndexedDB has answered, the record of      *)
(* every document the tab has shown is what the tab last held of it: no    *)
(* debounced write, edit of the metadata, save or change of document has   *)
(* put an older field back.  The three coincidences that Calm excludes     *)
(* each break it.                                                          *)
THEOREM RecordIsWhatWasHeld ==
    ASSUME Calm
    PROVE  Spec => []StoredWhenSettled
<1> DEFINE IInv == Shapes /\ InTurn /\ Tidy /\ Loads /\ Stored
<1>1. Init => IInv
  BY InitShapes, InitTidy, InitStored
<1>2. IInv /\ [Next]_vars => IInv'
  BY ShapesStep, TurnsStep, TidyStep, LoadsStep, StoredStep
<1>3. IInv => StoredWhenSettled
  <2> SUFFICES ASSUME IInv, Settled, NEW d \in DocIds, plan[d] # None
               PROVE  disk[d] # None /\ Content(disk[d]) = Content(plan[d])
    BY DEF StoredWhenSettled
  <2>1. requests = <<>> /\ pending = None /\ Thens(requests) = {}
    BY ThensFacts DEF Settled, Shapes
  <2>2. Final(disk, requests, d, disk[d]) /\ disk[d] \in Records \cup {None}
    BY <2>1, FinalNone DEF Shapes
  <2>3. ~Waits(d) /\ ~Queued(d) /\ ~Changing(d)
    BY <2>1 DEF Waits, Queued, Changing
  <2> QED BY <2>2, <2>3 DEF Stored, Due
<1> QED BY <1>1, <1>2, <1>3, PTL DEF Spec

-----------------------------------------------------------------------------
(* Strokes                                                                 *)

(* A later record b has the strokes of an earlier one, but for those that  *)
(* were taken back.                                                        *)
Keeps(gone, a, b) == a # None /\ b # None => a.rows \ gone \subseteq b.rows

(* The record, what is asked to be written to it, first to last, and what  *)
(* the tab holds: none loses strokes of one before.                        *)
Chained(dk, s, held, gone) ==
    /\ \A d \in DocIds : Keeps(gone, dk[d], held[d])
    /\ \A i \in 1..Len(s) : s[i].op # "get" =>
          /\ Keeps(gone, s[i].record, held[s[i].id])
          /\ Keeps(gone, dk[s[i].id], s[i].record)
    /\ \A i, j \in 1..Len(s) :
          i < j /\ s[i].op # "get" /\ Changes(s[j], s[i].id) =>
             Keeps(gone, s[i].record, s[j].record)

Chain == Chained(disk, requests, plan, undone)

(* A record that waits for its rows has none.                              *)
Bare(r) == r # None /\ r.shouldFetch => r.rows = {}

Bared(dk, s) ==
    /\ \A d \in DocIds : Bare(dk[d])
    /\ \A i \in 1..Len(s) : s[i].op # "get" => Bare(s[i].record)
    /\ \A t \in Thens(s) : t.kind = "queue" => Bare(t.record)

Fetching == Bared(disk, requests) /\ (pending # None => Bare(pending.record))

LEMMA ChainPop ==
    ASSUME NEW s, Good(s), s # <<>>, NEW dk \in [DocIds -> Records \cup {None}], NEW dk2,
           \/ Head(s).op = "get" /\ dk2 = dk
           \/ Head(s).op # "get" /\ dk2 = [dk EXCEPT ![Head(s).id] = Head(s).record],
           NEW held, NEW gone, Chained(dk, s, held, gone)
    PROVE  /\ Chained(dk2, Tail(s), held, gone)
           /\ \A d \in DocIds : Keeps(gone, dk[d], dk2[d])
<1> DEFINE b == Tail(s)
<1>1. /\ Head(s) = s[1] /\ 1 \in 1..Len(s) /\ Len(b) \in Nat /\ Len(s) = Len(b) + 1
      /\ \A i \in 1..Len(b) : i + 1 \in 1..Len(s) /\ b[i] = s[i + 1] /\ 1 < i + 1
  BY Pops DEF Good
<1>2. \A i \in 1..Len(s) : s[i] \in Request /\ s[i].id \in DocIds
  <2>1. \A i \in 1..Len(s) : s[i] \in Request
    BY ElementOfSeq DEF Good
  <2> QED BY <2>1 DEF Request
<1>3. s[1].id \in DocIds
  BY <1>1, <1>2
<1>4. \A d \in DocIds : \/ s[1].op # "get" /\ s[1].id = d /\ dk2[d] = s[1].record
                        \/ ~Changes(s[1], d) /\ dk2[d] = dk[d]
  BY <1>1, <1>3 DEF Changes
<1>5. \A i, j \in 1..Len(b) : i < j => i + 1 < j + 1
  OBVIOUS
<1> HIDE DEF b
<1>6. \A d \in DocIds : Keeps(gone, dk2[d], held[d])
  BY <1>1, <1>4 DEF Chained
<1>7. \A i \in 1..Len(b) : b[i].op # "get" =>
         /\ Keeps(gone, b[i].record, held[b[i].id])
         /\ Keeps(gone, dk2[b[i].id], b[i].record)
  <2> TAKE i \in 1..Len(b)
  <2> HAVE b[i].op # "get"
  <2>1. i + 1 \in 1..Len(s) /\ b[i] = s[i + 1] /\ 1 < i + 1 /\ b[i].id \in DocIds
    BY <1>1, <1>2
  <2>2. CASE s[1].op # "get" /\ s[1].id = b[i].id /\ dk2[b[i].id] = s[1].record
    BY <1>1, <2>1, <2>2 DEF Chained, Changes
  <2>3. CASE dk2[b[i].id] = dk[b[i].id]
    BY <2>1, <2>3 DEF Chained
  <2> QED BY <1>4, <2>1, <2>2, <2>3 DEF Chained
<1>8. \A i, j \in 1..Len(b) :
         i < j /\ b[i].op # "get" /\ Changes(b[j], b[i].id) =>
            Keeps(gone, b[i].record, b[j].record)
  BY <1>1, <1>5 DEF Chained
<1>9. \A d \in DocIds : Keeps(gone, dk[d], dk2[d])
  BY <1>1, <1>4 DEF Chained, Keeps
<1> QED BY <1>6, <1>7, <1>8, <1>9 DEF Chained, b

(* A request that reads, that deletes, or that writes the strokes the tab  *)
(* holds.                                                                  *)
LEMMA ChainPush ==
    ASSUME NEW s, Good(s), NEW q \in Request, NEW dk, NEW held, NEW gone,
           Chained(dk, s, held, gone),
           \/ q.op = "get" \/ q.record = None
           \/ held[q.id] # None /\ q.record.rows = held[q.id].rows
    PROVE  Chained(dk, Append(s, q), held, gone)
<1> DEFINE a == Append(s, q)
<1>1. /\ Len(s) \in Nat
      /\ \A i \in 1..Len(a) : \/ i \in 1..Len(s) /\ a[i] = s[i]
                              \/ i = Len(s) + 1 /\ a[i] = q
  BY Pushes DEF Good
<1>2. q.id \in DocIds
  BY DEF Request
<1> HIDE DEF a
<1>3. q.op # "get" => /\ Keeps(gone, q.record, held[q.id])
                      /\ Keeps(gone, dk[q.id], q.record)
  BY <1>2 DEF Chained, Keeps
<1>4. ASSUME NEW i \in 1..Len(s), s[i].op # "get", Changes(q, s[i].id)
      PROVE  Keeps(gone, s[i].record, q.record)
  <2>1. Keeps(gone, s[i].record, held[q.id]) /\ q.op # "get"
    BY <1>4 DEF Chained, Changes
  <2> QED BY <2>1 DEF Keeps
<1>5. \A i \in 1..Len(a) : a[i].op # "get" =>
         /\ Keeps(gone, a[i].record, held[a[i].id])
         /\ Keeps(gone, dk[a[i].id], a[i].record)
  BY <1>1, <1>3 DEF Chained
<1>6. \A i, j \in 1..Len(a) :
         i < j /\ a[i].op # "get" /\ Changes(a[j], a[i].id) =>
            Keeps(gone, a[i].record, a[j].record)
  <2> TAKE i, j \in 1..Len(a)
  <2> HAVE i < j /\ a[i].op # "get" /\ Changes(a[j], a[i].id)
  <2>1. i \in 1..Len(s) /\ a[i] = s[i]
    BY <1>1
  <2>2. CASE j \in 1..Len(s) /\ a[j] = s[j]
    BY <2>1, <2>2 DEF Chained
  <2>3. CASE j = Len(s) + 1 /\ a[j] = q
    BY <1>4, <2>1, <2>3
  <2> QED BY <1>1, <2>2, <2>3
<1>7. \A d \in DocIds : Keeps(gone, dk[d], held[d])
  BY DEF Chained
<1> QED BY <1>5, <1>6, <1>7 DEF Chained, a

(* The only request writes the strokes that the record has.                *)
LEMMA ChainLone ==
    ASSUME NEW s, Good(s), s = <<>>, NEW q \in Request, NEW dk, NEW held, NEW gone,
           Chained(dk, s, held, gone), dk[q.id] # None, q.record.rows = dk[q.id].rows
    PROVE  Chained(dk, Append(s, q), held, gone)
<1> DEFINE a == Append(s, q)
<1>1. Len(s) = 0
  BY EmptySeq
<1>2. \A i \in 1..Len(a) : i = 1 /\ a[i] = q
  BY <1>1, Pushes DEF Good
<1>3. q.id \in DocIds
  BY DEF Request
<1> HIDE DEF a
<1>4. Keeps(gone, q.record, held[q.id]) /\ Keeps(gone, dk[q.id], q.record)
  BY <1>3 DEF Chained, Keeps
<1>5. \A i, j \in 1..Len(a) : ~(i < j)
  BY <1>2
<1>6. \A d \in DocIds : Keeps(gone, dk[d], held[d])
  BY DEF Chained
<1> QED BY <1>2, <1>4, <1>5, <1>6 DEF Chained, a

(* What the tab holds loses only strokes that were taken back, or follows  *)
(* a record that nothing is about to change.                               *)
LEMMA ChainHeld ==
    ASSUME NEW s, Good(s), NEW dk, NEW held, NEW held2, NEW gone, NEW gone2,
           gone \subseteq gone2, Chained(dk, s, held, gone),
           \A d \in DocIds :
              \/ held2[d] = None
              \/ held[d] # None /\ held[d].rows \ gone2 \subseteq held2[d].rows
              \/ Keeps(gone2, dk[d], held2[d]) /\ \A i \in 1..Len(s) : ~Changes(s[i], d)
    PROVE  Chained(dk, s, held2, gone2)
<1>1. \A a, b : Keeps(gone, a, b) => Keeps(gone2, a, b)
  BY DEF Keeps
<1>2. \A d \in DocIds : Keeps(gone2, dk[d], held2[d])
  BY DEF Chained, Keeps
<1>3. \A i \in 1..Len(s) : s[i].id \in DocIds
  <2>1. \A i \in 1..Len(s) : s[i] \in Request
    BY ElementOfSeq DEF Good
  <2> QED BY <2>1 DEF Request
<1>4. ASSUME NEW i \in 1..Len(s), s[i].op # "get"
      PROVE  Keeps(gone2, s[i].record, held2[s[i].id])
  <2>1. Keeps(gone, s[i].record, held[s[i].id]) /\ s[i].id \in DocIds
    BY <1>3, <1>4 DEF Chained
  <2>2. \/ held2[s[i].id] = None
        \/ held[s[i].id] # None /\ held[s[i].id].rows \ gone2 \subseteq held2[s[i].id].rows
    BY <1>4, <2>1 DEF Changes
  <2> QED BY <2>1, <2>2 DEF Keeps
<1> QED BY <1>1, <1>2, <1>4 DEF Chained

LEMMA ChainStopped ==
    ASSUME NEW s, Good(s), NEW dk, NEW held, NEW gone, Chained(dk, s, held, gone)
    PROVE  Chained(dk, Stopped(s), held, gone)
<1>1. /\ Len(Stopped(s)) = Len(s)
      /\ \A i \in 1..Len(s) : /\ Stopped(s)[i].op = s[i].op /\ Stopped(s)[i].id = s[i].id
                              /\ Stopped(s)[i].record = s[i].record
  BY CancelFacts
<1> QED BY <1>1 DEF Chained, Changes

LEMMA MergedBare ==
    \A r, n \in Records, kind \in Edits : Bare(r) => Bare(Merged(kind, r, n))
<1> TAKE r, n \in Records
<1> TAKE kind \in Edits
<1> HAVE Bare(r)
<1>1. Merged(kind, r, n) \in Records /\ Merged(kind, r, n).rows = r.rows
  BY RecordFacts
<1>2. Merged(kind, r, n).shouldFetch = FALSE \/ Merged(kind, r, n).shouldFetch = r.shouldFetch
  <2>1. CASE kind = "name"
    <3>1. [r EXCEPT !.name = n.name] \in Records
      BY DEF Records
    <3> QED BY <2>1, <3>1, PlainContent DEF Merged
  <2>2. CASE kind = "colors"
    BY <2>2 DEF Merged, Records
  <2>3. CASE kind = "password"
    BY <2>3 DEF Merged, Records
  <2>4. CASE kind = "document"
    BY <2>4 DEF Merged, Records
  <2>5. CASE kind = "count"
    <3>1. [n EXCEPT !.rows = r.rows] \in Records
      BY DEF Records
    <3> QED BY <2>5, <3>1, PlainContent DEF Merged
  <2> QED BY <2>1, <2>2, <2>3, <2>4, <2>5 DEF Edits, Flushing
<1>3. r # None
  BY Numbers
<1> QED BY <1>1, <1>2, <1>3 DEF Bare

LEMMA BarePop ==
    ASSUME NEW s, Good(s), s # <<>>, NEW dk \in [DocIds -> Records \cup {None}], NEW dk2,
           \/ Head(s).op = "get" /\ dk2 = dk
           \/ Head(s).op # "get" /\ dk2 = [dk EXCEPT ![Head(s).id] = Head(s).record],
           Bared(dk, s)
    PROVE  Bared(dk2, Tail(s))
<1>1. /\ Head(s) = s[1] /\ 1 \in 1..Len(s)
      /\ \A i \in 1..Len(Tail(s)) : i + 1 \in 1..Len(s) /\ Tail(s)[i] = s[i + 1]
  BY Pops DEF Good
<1>2. Thens(s) = Thens(Tail(s)) \cup {Head(s).then}
  BY ThensPop
<1>3. \A d \in DocIds : Bare(dk2[d])
  BY <1>1 DEF Bared
<1>4. \A i \in 1..Len(Tail(s)) : Tail(s)[i].op # "get" => Bare(Tail(s)[i].record)
  BY <1>1 DEF Bared
<1> QED BY <1>2, <1>3, <1>4 DEF Bared

LEMMA BarePush ==
    ASSUME NEW s, Good(s), NEW q \in Request, NEW dk, Bared(dk, s),
           q.op # "get" => Bare(q.record),
           q.then.kind = "queue" => Bare(q.then.record)
    PROVE  Bared(dk, Append(s, q))
<1>1. \A i \in 1..Len(Append(s, q)) : \/ i \in 1..Len(s) /\ Append(s, q)[i] = s[i]
                                      \/ Append(s, q)[i] = q
  BY Pushes DEF Good
<1>2. Thens(Append(s, q)) = Thens(s) \cup {q.then}
  BY ThensPush
<1> QED BY <1>1, <1>2 DEF Bared

LEMMA BareStopped ==
    ASSUME NEW s, Good(s), NEW dk, Bared(dk, s)
    PROVE  Bared(dk, Stopped(s))
<1>1. /\ Len(Stopped(s)) = Len(s)
      /\ \A i \in 1..Len(s) : Stopped(s)[i].op = s[i].op /\ Stopped(s)[i].record = s[i].record
  BY CancelFacts
<1>2. \A t \in Thens(Stopped(s)) : t.kind = "queue" => t \in Thens(s)
  BY ThensStopped
<1> QED BY <1>1, <1>2 DEF Bared

LEMMA InitChain == Init => Chain /\ Fetching
<1> SUFFICES ASSUME Init PROVE Chain /\ Fetching
  OBVIOUS
<1>1. /\ requests = <<>> /\ Len(<<>>) = 0 /\ pending = None /\ plan = [d \in DocIds |-> None]
      /\ disk = [d \in DocIds |-> IF d \in Migrated THEN MigratedRecord ELSE None]
  BY EmptySeq DEF Init
<1>2. Thens(<<>>) = {}
  BY <1>1 DEF Thens
<1>3. Bare(MigratedRecord) /\ Bare(None)
  BY DEF MigratedRecord, Original, Bare
<1>4. \A d \in DocIds : disk[d] \in {MigratedRecord, None} /\ plan[d] = None
  BY <1>1
<1>5. \A d \in DocIds : Bare(disk[d])
  BY <1>3, <1>4
<1>6. Chain
  BY <1>1, <1>4 DEF Chain, Chained, Keeps
<1> QED BY <1>1, <1>2, <1>5, <1>6 DEF Fetching, Bared

(* What an answer does to the table and to the requests after it.          *)
LEMMA PopChain ==
    ASSUME Shapes, InTurn, Tidy, Chain, Fetching, Answered,
           \/ Head1.op = "get" /\ disk' = disk
           \/ Head1.op # "get" /\ disk' = [disk EXCEPT ![Head1.id] = Head1.record]
    PROVE  /\ Chained(disk', Rest, plan, undone) /\ Bared(disk', Rest)
           /\ \A d \in DocIds : Keeps(undone, disk[d], disk'[d])
<1>1. Good(requests) /\ requests # <<>> /\ disk \in [DocIds -> Records \cup {None}]
  BY DEF Shapes, Answered
<1>2. Chained(disk, requests, plan, undone) /\ Bared(disk, requests)
  BY DEF Chain, Fetching
<1> QED BY <1>1, <1>2, ChainPop, BarePop DEF Head1, Rest

(* No step takes strokes from a record, unless the user took them back.    *)
Kept == \A d \in DocIds : Keeps(undone', disk[d], disk'[d])

LEMMA KeptSame ==
    ASSUME disk' = disk
    PROVE  Kept
BY DEF Kept, Keeps

LEMMA PutDoneChain ==
    ASSUME Calm, Shapes, InTurn, Tidy, Stored, Chain, Fetching, PutDone
    PROVE  Chain' /\ Fetching' /\ Kept
<1>1. /\ Answered /\ Head1.op = "put" /\ disk' = [disk EXCEPT ![Head1.id] = Head1.record]
      /\ plan' = plan /\ undone' = undone /\ Good(Rest) /\ Head1.then \in Follow
      /\ Thens(requests) = Thens(Rest) \cup {Head1.then}
  BY AfterHead, HeadFacts DEF PutDone, remote
<1>2. /\ Chained(disk', Rest, plan, undone) /\ Bared(disk', Rest)
      /\ \A d \in DocIds : Keeps(undone, disk[d], disk'[d])
  BY <1>1, PopChain
<1>3. Kept
  BY <1>1, <1>2 DEF Kept
<1>4. CASE Head1.then.kind = "none"
  <2>1. requests' = Rest /\ pending' = pending
    BY <1>4, PutDoneTidy, Plainly
  <2> QED BY <1>1, <1>2, <1>3, <2>1 DEF Chain, Fetching
<1>5. CASE Head1.then.kind = "queue"
  <2> DEFINE record == Head1.then.record
             q == Put(open, record, NoThen)
  <2>1. /\ pending = None /\ pending' = None /\ Head1.then.id = open
        /\ record \in Records /\ requests' = Append(Rest, q) /\ open \in DocIds
        /\ plan[open] \in Records
    BY <1>1, <1>5, PutDoneTidy, Plainly, HeadFacts, Numbers DEF Sound, Shapes
  <2>2. q \in Request /\ q.then.kind = "none" /\ q.op = "put" /\ q.id = open /\ q.record = record
    BY <2>1, Makes, Plainly
  <2>3. Content(record) = Content(plan[open]) /\ Bare(record)
    BY <1>1, <1>5, <2>1, Numbers DEF Stored, Due, Fetching, Bared
  <2> HIDE DEF q, record
  <2>4. record.rows = plan[open].rows
    BY <2>1, <2>3, SameRows
  <2>5. Chained(disk', Append(Rest, q), plan, undone)
    BY <1>1, <1>2, <2>1, <2>2, <2>4, Numbers, ChainPush
  <2>6. Bared(disk', Append(Rest, q))
    BY <1>1, <1>2, <2>2, <2>3, BarePush
  <2> QED BY <1>1, <1>3, <2>1, <2>5, <2>6 DEF Chain, Fetching
<1>6. CASE Head1.then.kind \in Edits \cup {"save"}
  <2> DEFINE q == Get(Head1.then.id, Head1.then)
  <2>1. /\ pending' = pending /\ Head1.then.id \in DocIds /\ requests' = Append(Rest, q)
    BY <1>6, PutDoneTidy, Plainly
  <2>2. q \in Request /\ q.then = Head1.then /\ q.op = "get" /\ q.record = None
    BY <1>1, <2>1, Asks
  <2> HIDE DEF q
  <2>3. Chained(disk', Append(Rest, q), plan, undone)
    BY <1>1, <1>2, <2>2, ChainPush
  <2>4. Bared(disk', Append(Rest, q))
    BY <1>1, <1>2, <1>6, <2>2, BarePush, Plainly
  <2> QED BY <1>1, <1>3, <2>1, <2>3, <2>4 DEF Chain, Fetching
<1> QED BY <1>4, <1>5, <1>6, PutDoneTidy

LEMMA EditReadChain ==
    ASSUME Shapes, InTurn, Tidy, Chain, Fetching, EditRead
    PROVE  Chain' /\ Fetching' /\ Kept
<1> DEFINE then == Head1.then
           new == Merged(then.kind, disk[open], then.record)
           q == Put(open, new, NoThen)
<1>1. /\ Answered /\ Head1.op = "get" /\ open \in DocIds /\ then.kind \in Edits
      /\ then.record \in Records /\ Rest = <<>> /\ Good(Rest)
      /\ UNCHANGED <<disk, pending, plan, undone>>
  BY EditReadTidy, AfterHead DEF remote
<1>2. \/ disk[open] = None /\ requests' = Rest
      \/ disk[open] \in Records /\ new \in Records /\ requests' = Append(Rest, q)
  BY EditReadTidy
<1>3. Chained(disk, Rest, plan, undone) /\ Bared(disk, Rest) /\ Kept
  BY <1>1, PopChain, KeptSame
<1>4. CASE requests' = Rest
  BY <1>1, <1>3, <1>4 DEF Chain, Fetching
<1>5. CASE disk[open] \in Records /\ new \in Records /\ requests' = Append(Rest, q)
  <2>1. new.rows = disk[open].rows /\ Bare(new)
    BY <1>1, <1>5, RecordFacts, MergedBare DEF Fetching, Bared
  <2> HIDE DEF new
  <2>2. q \in Request /\ q.then.kind = "none" /\ q.id = open /\ q.record = new
    BY <1>1, <1>5, Makes, Plainly
  <2> HIDE DEF q
  <2>3. Chained(disk, Append(Rest, q), plan, undone)
    BY <1>1, <1>3, <1>5, <2>1, <2>2, ChainLone, Numbers
  <2>4. Bared(disk, Append(Rest, q))
    BY <1>1, <1>3, <2>1, <2>2, BarePush
  <2> QED BY <1>1, <1>3, <1>5, <2>3, <2>4 DEF Chain, Fetching
<1> QED BY <1>2, <1>4, <1>5

LEMMA PopsChain ==
    ASSUME Shapes, InTurn, Tidy, Chain, Fetching, Deleted \/ Ignored \/ LoadRead
    PROVE  Chain' /\ Fetching' /\ Kept
<1>1. /\ Answered /\ requests' = Rest /\ UNCHANGED <<pending, plan, undone>>
  BY PopTidy DEF remote
<1>2. \/ Head1.op = "get" /\ disk' = disk
      \/ Head1.op # "get" /\ disk' = [disk EXCEPT ![Head1.id] = Head1.record]
  BY HeadFacts DEF Deleted, Ignored, LoadRead, Sound
<1>3. /\ Chained(disk', Rest, plan, undone) /\ Bared(disk', Rest)
      /\ \A d \in DocIds : Keeps(undone, disk[d], disk'[d])
  BY <1>1, <1>2, PopChain
<1> QED BY <1>1, <1>3 DEF Chain, Fetching, Kept

(* An update that waits is of the strokes the tab holds.                   *)
LEMMA PendingHeld ==
    ASSUME Shapes, Tidy, Stored, pending # None
    PROVE  /\ open \in DocIds /\ pending.id = open /\ plan[open] \in Records
           /\ pending.record \in Records /\ pending.record.rows = plan[open].rows
<1>1. open \in DocIds /\ pending.id = open /\ pending.record \in Records
  BY PendingFacts DEF Tidy
<1>2. plan[open] \in Records
  BY <1>1, Numbers DEF Shapes
<1>3. Content(pending.record) = Content(plan[open])
  BY <1>1, <1>2, Numbers DEF Stored, Due, Waits
<1> QED BY <1>1, <1>2, <1>3, SameRows

LEMMA TimerChain ==
    ASSUME Calm, Shapes, InTurn, Tidy, Stored, Chain, Fetching, TimerFires
    PROVE  Chain' /\ Fetching' /\ Kept
<1> DEFINE q == Put(open, pending.record, NoThen)
<1>1. /\ pending # None /\ requests' = Append(requests, q) /\ pending' = None
      /\ UNCHANGED <<disk, plan, undone>>
  BY TimerTidy DEF remote
<1>2. /\ open \in DocIds /\ plan[open] \in Records /\ pending.record \in Records
      /\ pending.record.rows = plan[open].rows /\ Bare(pending.record)
  BY <1>1, PendingHeld DEF Fetching
<1>3. q \in Request /\ q.then.kind = "none" /\ q.id = open /\ q.record = pending.record
  BY <1>2, Makes, Plainly
<1> HIDE DEF q
<1>4. Good(requests) /\ Chained(disk, requests, plan, undone) /\ Bared(disk, requests)
  BY DEF Shapes, Chain, Fetching
<1>5. Chained(disk, Append(requests, q), plan, undone)
  BY <1>2, <1>3, <1>4, ChainPush, Numbers
<1>6. Bared(disk, Append(requests, q))
  BY <1>2, <1>3, <1>4, BarePush
<1> QED BY <1>1, <1>5, <1>6, KeptSame DEF Chain, Fetching

LEMMA StrokeChain ==
    ASSUME Calm, Shapes, InTurn, Tidy, Stored, Chain, Fetching, Stroke
    PROVE  Chain' /\ Fetching' /\ Kept
<1>1. PICK held \in Records : /\ plan' = [plan EXCEPT ![open] = held]
                              /\ plan[open].rows \subseteq held.rows
                              /\ pending' = [id |-> open, record |-> Plain(held)]
  BY StrokeTidy
<1>2. /\ open \in DocIds /\ plan[open] \in Records /\ requests' = requests
      /\ UNCHANGED <<disk, undone>>
  BY StrokeTidy DEF remote
<1>3. \A d \in DocIds : \/ plan'[d] = None
                        \/ plan[d] # None /\ plan[d].rows \ undone \subseteq plan'[d].rows
  BY <1>1, <1>2, Numbers DEF Shapes
<1>4. Good(requests) /\ Chained(disk, requests, plan, undone) /\ Bared(disk, requests)
  BY DEF Shapes, Chain, Fetching
<1>5. Chained(disk, requests, plan', undone)
  BY <1>3, <1>4, ChainHeld
<1>6. Bare(pending'.record)
  BY <1>1, PlainContent DEF Bare
<1> QED BY <1>2, <1>4, <1>5, <1>6, KeptSame DEF Chain, Fetching

LEMMA UndoChain ==
    ASSUME Calm, Shapes, InTurn, Tidy, Stored, Chain, Fetching, NEW s \in Stamps, Undo(s)
    PROVE  Chain' /\ Fetching' /\ Kept
<1>1. PICK held \in Records : /\ plan' = [plan EXCEPT ![open] = held]
                              /\ held.rows = plan[open].rows \ {s}
                              /\ requests' = Append(requests, Put(open, Plain(held), NoThen))
  BY UndoTidy
<1> DEFINE q == Put(open, Plain(held), NoThen)
<1>2. /\ open \in DocIds /\ plan[open] \in Records /\ pending' = None /\ disk' = disk
      /\ undone' = undone \cup {s}
  BY UndoTidy
<1>3. Plain(held) \in Records /\ Plain(held).rows = held.rows /\ Bare(Plain(held))
  BY RecordFacts, PlainContent DEF Bare
<1>4. /\ q \in Request /\ q.id = open /\ q.record = Plain(held) /\ q.then.kind = "none"
      /\ requests' = Append(requests, q)
  BY <1>1, <1>2, <1>3, Makes, Plainly
<1> HIDE DEF q
<1>5. plan'[open] = held /\ held # None
  BY <1>1, <1>2, Numbers DEF Shapes
<1>6. \A d \in DocIds : \/ plan'[d] = None
                        \/ plan[d] # None /\ plan[d].rows \ undone' \subseteq plan'[d].rows
  BY <1>1, <1>2, Numbers DEF Shapes
<1>7. Good(requests) /\ Chained(disk, requests, plan, undone) /\ Bared(disk, requests)
  BY DEF Shapes, Chain, Fetching
<1>8. Chained(disk, requests, plan', undone')
  BY <1>2, <1>6, <1>7, ChainHeld
<1>9. Chained(disk, Append(requests, q), plan', undone')
  BY <1>3, <1>4, <1>5, <1>1, <1>7, <1>8, ChainPush
<1>10. Bared(disk, Append(requests, q))
  BY <1>3, <1>4, <1>7, BarePush
<1> QED BY <1>2, <1>4, <1>9, <1>10, KeptSame DEF Chain, Fetching

LEMMA MetadataChain ==
    ASSUME Calm, Shapes, InTurn, Tidy, Stored, Chain, Fetching,
           SetCount \/ \E kind \in Flushing : EditMetadata(kind)
    PROVE  Chain' /\ Fetching' /\ Kept
<1>1. PICK held \in Records, t \in Follow, q \in Request :
         /\ plan' = [plan EXCEPT ![open] = held] /\ held.rows = plan[open].rows
         /\ t.kind \in Edits
         /\ requests' = Append(requests, q) /\ q.then = t
         /\ \/ pending = None /\ q.op = "get"
            \/ pending # None /\ q.op = "put" /\ q.id = open /\ q.record = pending.record
  BY MetadataTidy
<1>2. /\ open \in DocIds /\ plan[open] \in Records /\ pending' = None
      /\ UNCHANGED <<disk, undone>>
  BY MetadataTidy
<1>3. \A d \in DocIds : \/ plan'[d] = None
                        \/ plan[d] # None /\ plan[d].rows \ undone \subseteq plan'[d].rows
  BY <1>1, <1>2, Numbers DEF Shapes
<1>4. Good(requests) /\ Chained(disk, requests, plan, undone) /\ Bared(disk, requests)
  BY DEF Shapes, Chain, Fetching
<1>5. Chained(disk, requests, plan', undone)
  BY <1>3, <1>4, ChainHeld
<1>6. \/ q.op = "get"
      \/ plan'[q.id] # None /\ q.record.rows = plan'[q.id].rows
  <2>1. plan'[open] = held /\ held # None
    BY <1>1, <1>2, Numbers DEF Shapes
  <2> QED BY <1>1, <2>1, PendingHeld
<1>7. Chained(disk, Append(requests, q), plan', undone)
  BY <1>4, <1>5, <1>6, ChainPush
<1>8. q.op # "get" => Bare(q.record)
  BY <1>1 DEF Fetching
<1>9. Bared(disk, Append(requests, q))
  BY <1>1, <1>4, <1>8, BarePush, Plainly
<1> QED BY <1>1, <1>2, <1>7, <1>9, KeptSame DEF Chain, Fetching

LEMMA RoutesChain ==
    ASSUME Calm, Shapes, InTurn, Tidy, Chain, Fetching, NEW d0 \in DocIds, Delete(d0) \/ StartOpen(d0)
    PROVE  Chain' /\ Fetching' /\ Kept
<1>0. Good(requests) /\ Chained(disk, requests, plan, undone) /\ Bared(disk, requests)
  BY DEF Shapes, Chain, Fetching
<1>1. CASE Delete(d0)
  <2>1. PICK q \in Request : /\ requests' = Append(requests, q) /\ q.op = "delete"
                             /\ q.record = None /\ q.then = NoThen
    BY <1>1, DeleteTidy
  <2>2. plan' = [plan EXCEPT ![d0] = None] /\ UNCHANGED <<disk, pending, undone>>
    BY <1>1, DeleteTidy DEF remote
  <2>3. \A d \in DocIds : \/ plan'[d] = None
                          \/ plan[d] # None /\ plan[d].rows \ undone \subseteq plan'[d].rows
    BY <2>2 DEF Shapes
  <2>4. Chained(disk, requests, plan', undone)
    BY <1>0, <2>3, ChainHeld
  <2>5. Chained(disk, Append(requests, q), plan', undone)
    BY <1>0, <2>1, <2>4, ChainPush
  <2>6. Bared(disk, Append(requests, q))
    BY <1>0, <2>1, BarePush, Plainly DEF Bare
  <2> QED BY <2>1, <2>2, <2>5, <2>6, KeptSame DEF Chain, Fetching
<1>2. CASE StartOpen(d0)
  <2>1. PICK q \in Request : /\ requests' = Append(Stopped(requests), q)
                             /\ q.op = "get" /\ q.then.kind = "load"
    BY <1>2, StartOpenTidy
  <2>2. UNCHANGED <<disk, pending, plan, undone>>
    BY <1>2, StartOpenTidy DEF remote
  <2>3. /\ Good(Stopped(requests)) /\ Chained(disk, Stopped(requests), plan, undone)
        /\ Bared(disk, Stopped(requests))
    BY <1>0, CancelFacts, ChainStopped, BareStopped
  <2>4. Chained(disk, Append(Stopped(requests), q), plan, undone)
    BY <2>1, <2>3, ChainPush
  <2>5. Bared(disk, Append(Stopped(requests), q))
    BY <2>1, <2>3, BarePush
  <2> QED BY <2>1, <2>2, <2>4, <2>5, KeptSame DEF Chain, Fetching
<1> QED BY <1>1, <1>2

(* The document that opens shows the strokes of its record.                *)
LEMMA ShowChain ==
    ASSUME Calm, Shapes, InTurn, Tidy, Loads, Stored, Chain, Fetching, OpenOnline \/ OpenOffline
    PROVE  Chain' /\ Fetching' /\ Kept
<1> DEFINE d0 == loading.id
<1>1. PICK record \in Records, q \in Request :
         /\ d0 \in DocIds /\ d0 # open
         /\ \A j \in 1..Len(requests) : ~Changes(requests[j], d0)
         /\ plan' = [plan EXCEPT ![d0] = record] /\ pending' = None
         /\ IF disk[d0] = None \/ disk[d0].shouldFetch
            THEN \/ record.rows = server[d0].rows
                 \/ /\ "offline" \in Allowed /\ disk[d0] # None
                    /\ record.rows = disk[d0].rows
            ELSE record.rows = disk[d0].rows
         /\ requests' = Append(requests, q) /\ q.op = "put"
         /\ \/ /\ pending = None /\ q.id = d0 /\ q.record = Plain(record)
               /\ q.then.kind = "none"
            \/ /\ pending # None /\ q.id = open
               /\ q.record = pending.record /\ q.then.kind = "queue"
               /\ q.then.record = Plain(record)
         /\ disk' = disk /\ undone' = undone
  BY ShowTidy DEF remote
<1> HIDE DEF d0
<1>2. Good(requests) /\ Chained(disk, requests, plan, undone) /\ Bared(disk, requests)
  BY DEF Shapes, Chain, Fetching
<1>3. Plain(record).rows = record.rows /\ Bare(Plain(record))
  BY PlainContent DEF Bare
<1>4. plan'[d0] = record /\ record # None /\ \A d \in DocIds \ {d0} : plan'[d] = plan[d]
  BY <1>1, Numbers DEF Shapes
<1>5. Keeps(undone, disk[d0], record)
  BY <1>1, <1>2 DEF Keeps, Bared, Bare
<1>6. \A d \in DocIds :
         \/ plan'[d] = None
         \/ plan[d] # None /\ plan[d].rows \ undone \subseteq plan'[d].rows
         \/ Keeps(undone, disk[d], plan'[d]) /\ \A i \in 1..Len(requests) : ~Changes(requests[i], d)
  BY <1>1, <1>4, <1>5
<1>7. Chained(disk, requests, plan', undone)
  BY <1>2, <1>6, ChainHeld
<1>8. plan'[q.id] # None /\ q.record.rows = plan'[q.id].rows /\ Bare(q.record)
  <2>1. CASE pending = None
    BY <1>1, <1>3, <1>4, <2>1
  <2>2. CASE pending # None
    <3>1. /\ open \in DocIds /\ plan[open] \in Records /\ pending.record.rows = plan[open].rows
          /\ Bare(pending.record)
      BY <2>2, PendingHeld DEF Fetching
    <3>2. plan'[open] = plan[open]
      BY <1>1, <1>4, <3>1
    <3> QED BY <1>1, <2>2, <3>1, <3>2, Numbers
  <2> QED BY <2>1, <2>2
<1>9. Chained(disk, Append(requests, q), plan', undone)
  BY <1>2, <1>7, <1>8, ChainPush
<1>10. q.then.kind = "queue" => Bare(q.then.record)
  BY <1>1, <1>3
<1>11. Bared(disk, Append(requests, q))
  BY <1>2, <1>8, <1>10, BarePush
<1> QED BY <1>1, <1>9, <1>11, KeptSame DEF Chain, Fetching

LEMMA SavesChain ==
    ASSUME Calm, Shapes, InTurn, Tidy, Stored, Chain, Fetching,
           StartSave \/ \E b \in BOOLEAN : SaveRead(b)
    PROVE  Chain' /\ Fetching' /\ Kept
<1>0. Good(requests) /\ Chained(disk, requests, plan, undone) /\ Bared(disk, requests)
  BY DEF Shapes, Chain, Fetching
<1>1. CASE StartSave
  <2>1. PICK q \in Request :
           /\ requests' = Append(requests, q) /\ q.then.kind = "save"
           /\ \/ pending = None /\ q.op = "get"
              \/ pending # None /\ q.op = "put" /\ q.id = open /\ q.record = pending.record
    BY <1>1, StartSaveTidy
  <2>2. pending' = None /\ UNCHANGED <<disk, plan, undone>>
    BY <1>1, StartSaveTidy DEF remote
  <2>3. \/ q.op = "get"
        \/ /\ plan[q.id] # None /\ q.record.rows = plan[q.id].rows /\ Bare(q.record)
    BY <2>1, PendingHeld, Numbers DEF Fetching
  <2>4. Chained(disk, Append(requests, q), plan, undone)
    BY <1>0, <2>3, ChainPush
  <2>5. Bared(disk, Append(requests, q))
    BY <1>0, <2>1, <2>3, BarePush
  <2> QED BY <2>1, <2>2, <2>4, <2>5, KeptSame DEF Chain, Fetching
<1>2. ASSUME NEW b \in BOOLEAN, SaveRead(b) PROVE Chain' /\ Fetching' /\ Kept
  <2>1. /\ Answered /\ Head1.op = "get" /\ Rest = <<>> /\ open \in DocIds /\ pending = None
        /\ plan[open] \in Records /\ Good(Rest) /\ UNCHANGED <<disk, pending, undone>>
    BY <1>2, SaveReadTidy, AfterHead
  <2>2. Chained(disk, Rest, plan, undone) /\ Bared(disk, Rest)
    BY <2>1, PopChain
  <2>3. CASE requests' = Rest /\ plan' = plan
    BY <2>1, <2>2, <2>3, KeptSame DEF Chain, Fetching
  <2>4. ASSUME NEW saved \in Records, saved.rows = plan[open].rows, saved.shouldFetch = FALSE,
               requests' = Append(Rest, Put(open, saved, NoThen)),
               plan' = [plan EXCEPT ![open] = [plan[open] EXCEPT !.dirty = FALSE]]
        PROVE  Chain' /\ Fetching' /\ Kept
    <3> DEFINE q == Put(open, saved, NoThen)
    <3>1. /\ q \in Request /\ q.then.kind = "none" /\ q.id = open /\ q.record = saved
          /\ requests' = Append(Rest, q)
      BY <2>1, <2>4, Makes, Plainly
    <3> HIDE DEF q
    <3>2. /\ [plan[open] EXCEPT !.dirty = FALSE] \in Records
          /\ [plan[open] EXCEPT !.dirty = FALSE].rows = plan[open].rows
      BY <2>1 DEF Records
    <3>3. /\ plan'[open] # None /\ plan'[open].rows = plan[open].rows
          /\ \A d \in DocIds \ {open} : plan'[d] = plan[d]
      BY <2>1, <2>4, <3>2, Numbers DEF Shapes
    <3>4. \A d \in DocIds : \/ plan'[d] = None
                            \/ plan[d] # None /\ plan[d].rows \ undone \subseteq plan'[d].rows
      BY <2>1, <3>3, Numbers
    <3>5. Chained(disk, Rest, plan', undone)
      BY <2>1, <2>2, <3>4, ChainHeld
    <3>6. Chained(disk, Append(Rest, q), plan', undone)
      BY <2>1, <2>4, <3>1, <3>3, <3>5, ChainPush
    <3>7. Bared(disk, Append(Rest, q))
      BY <2>1, <2>2, <2>4, <3>1, BarePush DEF Bare
    <3> QED BY <2>1, <3>1, <3>6, <3>7, KeptSame DEF Chain, Fetching
  <2> QED BY <1>2, <2>3, <2>4, SaveReadTidy
<1> QED BY <1>1, <1>2

(* A tab that ends leaves each record as it was, or as something that was  *)
(* to be written to it.                                                    *)
LEMMA ExitChain ==
    ASSUME Shapes, Tidy, Stored, Chain, Fetching, NEW kicked \in BOOLEAN, Exit(kicked)
    PROVE  Chain' /\ Fetching' /\ Kept
<1>1. /\ requests' = <<>> /\ pending' = None /\ plan' = [d \in DocIds |-> None]
      /\ undone' = undone
  BY DEF Exit, remote
<1>2. Chained(disk, requests, plan, undone) /\ Bared(disk, requests)
  BY DEF Chain, Fetching
<1>3. ASSUME NEW d \in DocIds PROVE Keeps(undone, disk[d], disk'[d]) /\ Bare(disk'[d])
  <2>1. CASE disk'[d] = disk[d]
    BY <1>2, <2>1 DEF Keeps, Bared
  <2>2. ASSUME NEW i \in 1..Len(requests), requests[i].op # "get", requests[i].id = d,
               disk'[d] = requests[i].record
        PROVE  Keeps(undone, disk[d], disk'[d]) /\ Bare(disk'[d])
    BY <1>2, <2>2 DEF Chained, Bared
  <2>3. CASE pending # None /\ pending.id = d /\ disk'[d] = pending.record
    <3>1. pending.record.rows = plan[d].rows /\ plan[d] # None /\ Bare(pending.record)
      BY <2>3, PendingHeld, Numbers DEF Fetching
    <3> QED BY <1>2, <2>3, <3>1 DEF Chained, Keeps
  <2> QED BY <2>1, <2>2, <2>3, ExitFacts
<1>4. Kept
  BY <1>1, <1>3 DEF Kept
<1>5. Len(<<>>) = 0 /\ Thens(<<>>) = {} /\ \A d \in DocIds : plan'[d] = None
  BY <1>1, EmptySeq DEF Thens
<1>6. Chained(disk', <<>>, plan', undone') /\ Bared(disk', <<>>)
  BY <1>3, <1>5 DEF Chained, Keeps, Bared
<1> QED BY <1>1, <1>4, <1>6 DEF Chain, Fetching

LEMMA ChainStep ==
    ASSUME Calm, Shapes, InTurn, Tidy, Loads, Stored, Chain, Fetching, [Next]_vars
    PROVE  Chain' /\ Fetching' /\ Kept
<1>1. CASE PutDone \/ EditRead
  BY <1>1, PutDoneChain, EditReadChain
<1>2. CASE Deleted \/ Ignored \/ LoadRead
  BY <1>2, PopsChain
<1>3. CASE TimerFires \/ Stroke \/ \E s \in Stamps : Undo(s)
  BY <1>3, TimerChain, StrokeChain, UndoChain
<1>4. CASE SetCount \/ \E kind \in Flushing : EditMetadata(kind)
  BY <1>4, MetadataChain
<1>5. CASE \E d \in DocIds : Delete(d) \/ StartOpen(d)
  BY <1>5, RoutesChain
<1>6. CASE OpenOnline \/ OpenOffline
  BY <1>6, ShowChain
<1>7. CASE StartSave \/ \E b \in BOOLEAN : SaveRead(b)
  BY <1>7, SavesChain
<1>8. CASE \E b \in BOOLEAN : Exit(b)
  BY <1>8, ExitChain
<1>9. CASE OpenFails \/ UNCHANGED vars
  <2>1. UNCHANGED <<disk, requests, pending, plan, undone>>
    BY <1>9 DEF OpenFails, remote, vars
  <2> QED BY <2>1, KeptSame DEF Chain, Fetching
<1> QED BY <1>1, <1>2, <1>3, <1>4, <1>5, <1>6, <1>7, <1>8, <1>9 DEF Next

(* Unless a write passes a read-modify-write that is on, strokes meet the  *)
(* flush of the document before, or a number of districts is set within    *)
(* the debounce of a stroke, no step takes a stroke from a record that     *)
(* stays, except one that the user took back: every write of the store,    *)
(* and what a crash carries out of those that were asked for, has the      *)
(* strokes of the one before it.                                           *)
THEOREM RecordKeepsStrokes ==
    ASSUME Calm
    PROVE  Spec => DiskKeepsStrokes
<1> DEFINE Known == Shapes /\ InTurn /\ Tidy /\ Loads /\ Stored /\ Chain /\ Fetching
           Keep == \A d \in DocIds : disk[d] # None /\ disk'[d] # None =>
                      disk[d].rows \ undone' \subseteq disk'[d].rows
<1>1. Init => Known
  BY InitShapes, InitTidy, InitStored, InitChain
<1>2. Known /\ [Next]_vars => Known' /\ Keep
  <2> SUFFICES ASSUME Known, [Next]_vars PROVE Known' /\ Keep
    OBVIOUS
  <2>1. Kept /\ Known'
    BY ShapesStep, TurnsStep, TidyStep, LoadsStep, StoredStep, ChainStep
  <2> QED BY <2>1 DEF Kept, Keeps
<1>3. Known /\ [Next]_vars => [Keep]_vars
  BY <1>2
<1> QED BY <1>1, <1>2, <1>3, PTL DEF Spec, DiskKeepsStrokes

-----------------------------------------------------------------------------
(* The server's plan                                                       *)

(* A record that has the server's rows, but for those taken back.          *)
Covers(srv, gone, d, r) == r # None => srv[d].rows \ gone \subseteq r.rows

(* What is not waiting for its rows has those of the server: a whole       *)
(* record, what is to be written and what the tab holds.                   *)
Covered(srv, gone, dk, s, held) ==
    /\ \A d \in DocIds : /\ dk[d] # None /\ ~dk[d].shouldFetch => Covers(srv, gone, d, dk[d])
                         /\ Covers(srv, gone, d, held[d])
    /\ \A i \in 1..Len(s) : s[i].op # "get" => Covers(srv, gone, s[i].id, s[i].record)

Served == Covered(server, undone, disk, requests, plan)

(* An edit under way is of a document whose record will have them.         *)
Founded ==
    \A d \in DocIds : Changing(d) =>
        \A r \in Records \cup {None} : Final(disk, requests, d, r) =>
            r # None /\ Covers(server, undone, d, r)

LEMMA CoveredPop ==
    ASSUME NEW s, Good(s), s # <<>>, NEW dk \in [DocIds -> Records \cup {None}], NEW dk2,
           \/ Head(s).op = "get" /\ dk2 = dk
           \/ Head(s).op # "get" /\ dk2 = [dk EXCEPT ![Head(s).id] = Head(s).record],
           NEW srv, NEW gone, NEW held, Covered(srv, gone, dk, s, held)
    PROVE  Covered(srv, gone, dk2, Tail(s), held)
<1>1. /\ Head(s) = s[1] /\ 1 \in 1..Len(s)
      /\ \A i \in 1..Len(Tail(s)) : i + 1 \in 1..Len(s) /\ Tail(s)[i] = s[i + 1]
  BY Pops DEF Good
<1>2. \A d \in DocIds : dk2[d] # None /\ ~dk2[d].shouldFetch => Covers(srv, gone, d, dk2[d])
  BY <1>1 DEF Covered
<1>3. \A i \in 1..Len(Tail(s)) :
         Tail(s)[i].op # "get" => Covers(srv, gone, Tail(s)[i].id, Tail(s)[i].record)
  BY <1>1 DEF Covered
<1> QED BY <1>2, <1>3 DEF Covered

LEMMA CoveredPush ==
    ASSUME NEW s, Good(s), NEW q \in Request, NEW srv, NEW gone, NEW dk, NEW held,
           Covered(srv, gone, dk, s, held), q.op # "get" => Covers(srv, gone, q.id, q.record)
    PROVE  Covered(srv, gone, dk, Append(s, q), held)
<1>1. \A i \in 1..Len(Append(s, q)) : \/ i \in 1..Len(s) /\ Append(s, q)[i] = s[i]
                                      \/ Append(s, q)[i] = q
  BY Pushes DEF Good
<1> QED BY <1>1 DEF Covered

(* More is taken back, and the tab holds other rows.                       *)
LEMMA CoveredHeld ==
    ASSUME NEW s, NEW dk, NEW srv, NEW srv2, NEW gone, NEW gone2, NEW held, NEW held2,
           Covered(srv, gone, dk, s, held), Good(s),
           \A d \in DocIds : srv2[d].rows \ gone2 \subseteq srv[d].rows \ gone,
           \A d \in DocIds : Covers(srv2, gone2, d, held2[d])
    PROVE  Covered(srv2, gone2, dk, s, held2)
<1>1. \A d \in DocIds : \A r : Covers(srv, gone, d, r) => Covers(srv2, gone2, d, r)
  BY DEF Covers
<1>2. \A i \in 1..Len(s) : s[i].id \in DocIds
  <2>1. \A i \in 1..Len(s) : s[i] \in Request
    BY ElementOfSeq DEF Good
  <2> QED BY <2>1 DEF Request
<1> QED BY <1>1, <1>2 DEF Covered

LEMMA CoveredStopped ==
    ASSUME NEW s, Good(s), NEW srv, NEW gone, NEW dk, NEW held, Covered(srv, gone, dk, s, held)
    PROVE  Covered(srv, gone, dk, Stopped(s), held)
<1>1. /\ Len(Stopped(s)) = Len(s)
      /\ \A i \in 1..Len(s) : /\ Stopped(s)[i].op = s[i].op /\ Stopped(s)[i].id = s[i].id
                              /\ Stopped(s)[i].record = s[i].record
  BY CancelFacts
<1> QED BY <1>1 DEF Covered

(* No edit is under way.                                                   *)
LEMMA FoundedNone ==
    ASSUME \A t \in Thens(requests') : t.kind \notin Edits
    PROVE  Founded'
BY DEF Founded, Changing

(* A request of no edit, made when none is under way.                      *)
LEMMA FoundedPush ==
    ASSUME Shapes, NEW q \in Request, requests' = Append(requests, q), q.then.kind \notin Edits,
           \A t \in Thens(requests) : t.kind \in {"none", "load"}
    PROVE  Founded'
<1>1. Thens(requests') = Thens(requests) \cup {q.then}
  BY ThensPush DEF Shapes
<1> QED BY <1>1, FoundedNone, Plainly

LEMMA InitServed == Init => Served /\ Founded
<1> SUFFICES ASSUME Init PROVE Served /\ Founded
  OBVIOUS
<1>1. /\ requests = <<>> /\ Len(<<>>) = 0 /\ plan = [d \in DocIds |-> None]
      /\ disk = [d \in DocIds |-> IF d \in Migrated THEN MigratedRecord ELSE None]
  BY EmptySeq DEF Init
<1>2. Thens(requests) = {}
  BY <1>1 DEF Thens
<1>3. MigratedRecord.shouldFetch
  BY DEF MigratedRecord, Original
<1>4. \A d \in DocIds : disk[d] \in {MigratedRecord, None} /\ plan[d] = None
  BY <1>1
<1> QED BY <1>1, <1>2, <1>3, <1>4 DEF Served, Covered, Covers, Founded, Changing

(* What waits to be written has the server's rows.                         *)
LEMMA PendingCovers ==
    ASSUME Shapes, Tidy, Stored, Served, pending # None
    PROVE  Covers(server, undone, pending.id, pending.record)
<1>1. /\ open \in DocIds /\ pending.id = open /\ plan[open] \in Records
      /\ pending.record.rows = plan[open].rows
  BY PendingHeld
<1> QED BY <1>1, Numbers DEF Served, Covered, Covers

LEMMA AnswersServed ==
    ASSUME Shapes, InTurn, Tidy, Stored, Served, Founded,
           PutDone \/ Deleted \/ Ignored \/ LoadRead
    PROVE  Served' /\ Founded'
<1>1. /\ Answered /\ Good(Rest) /\ Head1.then \in Follow /\ Head1.id \in DocIds
      /\ requests # <<>> /\ Good(requests)
      /\ Thens(requests) = Thens(Rest) \cup {Head1.then}
      /\ disk \in [DocIds -> Records \cup {None}]
  BY AfterHead, HeadFacts DEF PutDone, Deleted, Ignored, LoadRead, Shapes
<1>2. UNCHANGED <<server, undone, plan>>
  BY DEF PutDone, Deleted, Ignored, LoadRead, remote
<1>3. \/ Head1.op = "get" /\ disk' = disk
      \/ Head1.op # "get" /\ disk' = [disk EXCEPT ![Head1.id] = Head1.record]
  BY HeadFacts DEF PutDone, Deleted, Ignored, LoadRead, Sound
<1>4. Covered(server, undone, disk', Rest, plan)
  BY <1>1, <1>3, CoveredPop DEF Served, Head1, Rest
<1>5. \A d \in DocIds : \A r : Final(disk', Rest, d, r) => Final(disk, requests, d, r)
  BY <1>1, <1>3, PopFinal
<1>6. CASE requests' = Rest
  <2>1. \A d \in DocIds : Changing(d)' => Changing(d)
    BY <1>1, <1>6 DEF Changing
  <2> QED BY <1>2, <1>4, <1>5, <1>6, <2>1 DEF Served, Founded
<1>7. CASE PutDone /\ Head1.then.kind = "queue"
  <2> DEFINE record == Head1.then.record
             q == Put(open, record, NoThen)
  <2>1. /\ Head1.then.id = open /\ record \in Records /\ requests' = Append(Rest, q)
        /\ Rest = <<>> /\ open \in DocIds /\ plan[open] \in Records
    BY <1>1, <1>7, PutDoneTidy, Plainly, HeadFacts, Numbers DEF Sound, Shapes
  <2>2. q \in Request /\ q.then.kind = "none" /\ q.id = open /\ q.record = record
    BY <2>1, Makes, Plainly
  <2>3. Content(record) = Content(plan[open])
    BY <1>1, <1>7, <2>1, Numbers DEF Stored, Due
  <2> HIDE DEF q, record
  <2>4. Covers(server, undone, q.id, q.record)
    BY <2>1, <2>2, <2>3, SameRows, Numbers DEF Served, Covered, Covers
  <2>5. Covered(server, undone, disk', Append(Rest, q), plan)
    BY <1>1, <1>4, <2>2, <2>4, CoveredPush
  <2>6. Thens(Rest) = {}
    BY <2>1, ThensFacts DEF Shapes
  <2>7. Thens(Append(Rest, q)) = {q.then}
    BY <1>1, <2>2, <2>6, LonePush
  <2> QED BY <1>2, <2>1, <2>2, <2>5, <2>7, FoundedNone, Plainly DEF Served
<1>8. CASE PutDone /\ Head1.then.kind \in Edits \cup {"save"}
  <2> DEFINE q == Get(Head1.then.id, Head1.then)
  <2>1. Head1.then.id \in DocIds /\ requests' = Append(Rest, q)
    BY <1>8, PutDoneTidy, Plainly
  <2>2. q \in Request /\ q.then = Head1.then /\ q.op = "get"
    BY <1>1, <2>1, Asks
  <2> HIDE DEF q
  <2>3. Covered(server, undone, disk', Append(Rest, q), plan)
    BY <1>1, <1>4, <2>2, CoveredPush
  <2>4. Thens(requests') = Thens(requests)
    BY <1>1, <2>1, <2>2, ThensPush
  <2>5. \A d \in DocIds : \A r : Final(disk', requests', d, r) => Final(disk, requests, d, r)
    <3> TAKE d \in DocIds
    <3> TAKE r
    <3> HAVE Final(disk', requests', d, r)
    <3>1. Final(disk', Append(Rest, q), d, r)
      BY <2>1
    <3>2. Final(disk', Rest, d, r)
      BY <1>1, <2>2, <3>1, FinalPush DEF Changes
    <3> QED BY <1>5, <3>2
  <2>6. \A d \in DocIds : Changing(d)' => Changing(d)
    BY <2>4 DEF Changing
  <2> QED BY <1>2, <2>1, <2>3, <2>5, <2>6 DEF Served, Founded
<1>9. \/ requests' = Rest
      \/ PutDone /\ Head1.then.kind = "queue"
      \/ PutDone /\ Head1.then.kind \in Edits \cup {"save"}
  BY PutDoneTidy, PopTidy
<1> QED BY <1>6, <1>7, <1>8, <1>9

LEMMA EditReadServed ==
    ASSUME Shapes, InTurn, Tidy, Served, Founded, EditRead
    PROVE  Served' /\ Founded'
<1> DEFINE then == Head1.then
           new == Merged(then.kind, disk[open], then.record)
           q == Put(open, new, NoThen)
<1>1. /\ Answered /\ Head1.op = "get" /\ open \in DocIds /\ then.kind \in Edits /\ then.id = open
      /\ then.record \in Records /\ Rest = <<>> /\ Good(Rest) /\ Thens(Rest) = {}
      /\ UNCHANGED <<disk, plan, server, undone>>
  BY EditReadTidy, AfterHead DEF remote
<1>2. /\ requests # <<>> /\ Good(requests) /\ disk \in [DocIds -> Records \cup {None}]
      /\ then \in Thens(requests)
  BY <1>1, AfterHead DEF Shapes, Answered
<1>3. Covered(server, undone, disk, Rest, plan)
  BY <1>1, <1>2, CoveredPop DEF Served, Head1, Rest
<1>4. Final(disk, requests, open, disk[open])
  <2>1. Final(disk', Rest, open, disk[open])
    BY <1>1, FinalNone
  <2> QED BY <1>1, <2>1, PopFinal
<1>5. disk[open] # None /\ Covers(server, undone, open, disk[open])
  BY <1>1, <1>2, <1>4 DEF Founded, Changing
<1>6. disk[open] \in Records /\ new \in Records /\ requests' = Append(Rest, q)
  BY <1>5, EditReadTidy
<1>7. new.rows = disk[open].rows
  BY <1>1, <1>6, RecordFacts
<1> HIDE DEF new
<1>8. q \in Request /\ q.then.kind = "none" /\ q.id = open /\ q.record = new
  BY <1>1, <1>6, Makes, Plainly
<1> HIDE DEF q
<1>9. Covered(server, undone, disk, Append(Rest, q), plan)
  BY <1>1, <1>3, <1>5, <1>7, <1>8, CoveredPush DEF Covers
<1>10. Thens(Append(Rest, q)) = {q.then}
  BY <1>1, <1>8, LonePush
<1> QED BY <1>1, <1>6, <1>8, <1>9, <1>10, FoundedNone, Plainly DEF Served

LEMMA TimerServed ==
    ASSUME Calm, Shapes, InTurn, Tidy, Stored, Served, Founded, TimerFires
    PROVE  Served' /\ Founded'
<1> DEFINE q == Put(open, pending.record, NoThen)
<1>1. /\ pending # None /\ requests' = Append(requests, q) /\ pending.id = open
      /\ open \in DocIds /\ pending.record \in Records
      /\ \A t \in Thens(requests) : t.kind \in {"none", "load"}
      /\ UNCHANGED <<disk, plan, server, undone>>
  BY TimerTidy DEF remote
<1>2. q \in Request /\ q.then.kind = "none" /\ q.id = open /\ q.record = pending.record
  BY <1>1, Makes, Plainly
<1> HIDE DEF q
<1>3. Good(requests) /\ Covered(server, undone, disk, requests, plan)
  BY DEF Shapes, Served
<1>4. Covered(server, undone, disk, Append(requests, q), plan)
  BY <1>1, <1>2, <1>3, PendingCovers, CoveredPush
<1> QED BY <1>1, <1>2, <1>4, FoundedPush, Plainly DEF Served

LEMMA StrokeServed ==
    ASSUME Calm, Shapes, InTurn, Tidy, Served, Founded, Stroke
    PROVE  Served' /\ Founded'
<1>1. PICK held \in Records : /\ plan' = [plan EXCEPT ![open] = held]
                              /\ plan[open].rows \subseteq held.rows
  BY StrokeTidy
<1>2. /\ open \in DocIds /\ plan[open] \in Records /\ requests' = requests
      /\ UNCHANGED <<disk, server, undone>>
  BY StrokeTidy DEF remote
<1>3. Good(requests) /\ Covered(server, undone, disk, requests, plan)
  BY DEF Shapes, Served
<1>4. \A d \in DocIds : Covers(server, undone, d, plan'[d])
  BY <1>1, <1>2, <1>3, Numbers DEF Covered, Covers, Shapes
<1>5. Covered(server, undone, disk, requests, plan')
  BY <1>3, <1>4, CoveredHeld
<1> QED BY <1>2, <1>5 DEF Served, Founded, Changing

LEMMA UndoServed ==
    ASSUME Calm, Shapes, InTurn, Tidy, Served, Founded, NEW s \in Stamps, Undo(s)
    PROVE  Served' /\ Founded'
<1>1. PICK held \in Records : /\ plan' = [plan EXCEPT ![open] = held]
                              /\ held.rows = plan[open].rows \ {s}
                              /\ requests' = Append(requests, Put(open, Plain(held), NoThen))
  BY UndoTidy
<1> DEFINE q == Put(open, Plain(held), NoThen)
<1>2. /\ open \in DocIds /\ plan[open] \in Records /\ undone' = undone \cup {s}
      /\ \A t \in Thens(requests) : t.kind \in {"none", "load"}
      /\ UNCHANGED <<disk, server>>
  BY UndoTidy
<1>3. Plain(held) \in Records /\ Plain(held).rows = held.rows
  BY RecordFacts, PlainContent
<1>4. /\ q \in Request /\ q.id = open /\ q.record = Plain(held) /\ q.then.kind = "none"
      /\ requests' = Append(requests, q)
  BY <1>1, <1>2, <1>3, Makes, Plainly
<1> HIDE DEF q
<1>5. Good(requests) /\ Covered(server, undone, disk, requests, plan)
  BY DEF Shapes, Served
<1>6. \A d \in DocIds : Covers(server, undone', d, plan'[d])
  BY <1>1, <1>2, <1>5, Numbers DEF Covered, Covers, Shapes
<1>7. \A d \in DocIds : server[d].rows \ undone' \subseteq server[d].rows \ undone
  BY <1>2
<1>8. Covered(server, undone', disk, requests, plan')
  BY <1>5, <1>6, <1>7, CoveredHeld
<1>9. Covers(server, undone', open, Plain(held))
  BY <1>1, <1>2, <1>3, <1>5, Numbers DEF Covered, Covers
<1>10. Covered(server, undone', disk, Append(requests, q), plan')
  BY <1>4, <1>5, <1>8, <1>9, CoveredPush
<1> QED BY <1>2, <1>4, <1>10, FoundedPush, Plainly DEF Served

LEMMA MetadataServed ==
    ASSUME Calm, Shapes, InTurn, Tidy, Stored, Served, Founded,
           SetCount \/ \E kind \in Flushing : EditMetadata(kind)
    PROVE  Served' /\ Founded'
<1>1. PICK held \in Records, t \in Follow, q \in Request :
         /\ plan' = [plan EXCEPT ![open] = held] /\ held.rows = plan[open].rows
         /\ t.id = open /\ requests' = Append(requests, q) /\ q.then = t
         /\ \/ pending = None /\ q.op = "get"
            \/ pending # None /\ q.op = "put" /\ q.id = open /\ q.record = pending.record
  BY MetadataTidy
<1>2. /\ open \in DocIds /\ plan[open] \in Records
      /\ \A u \in Thens(requests) : u.kind \in {"none", "load"}
      /\ \A d \in DocIds : server'[d].rows = server[d].rows
      /\ UNCHANGED <<disk, undone>>
  BY MetadataTidy
<1>3. Good(requests) /\ Covered(server, undone, disk, requests, plan)
  BY DEF Shapes, Served
<1>4. \A d \in DocIds : \A r : Covers(server, undone, d, r) => Covers(server', undone, d, r)
  BY <1>2 DEF Covers
<1>5. \A d \in DocIds : Covers(server, undone, d, plan'[d])
  BY <1>1, <1>2, <1>3, Numbers DEF Covered, Covers, Shapes
<1>6. Covered(server', undone, disk, requests, plan')
  <2>1. \A d \in DocIds : Covers(server', undone, d, plan'[d])
    BY <1>4, <1>5
  <2>2. \A d \in DocIds : server'[d].rows \ undone \subseteq server[d].rows \ undone
    BY <1>2
  <2> QED BY <1>3, <2>1, <2>2, CoveredHeld
<1>7. q.op # "get" => Covers(server', undone, q.id, q.record)
  BY <1>1, <1>2, <1>4, PendingHeld, PendingCovers
<1>8. Covered(server', undone, disk, Append(requests, q), plan')
  BY <1>3, <1>6, <1>7, CoveredPush
<1>9. Thens(requests') = Thens(requests) \cup {t}
  BY <1>1, <1>3, ThensPush
<1>10. \A d \in DocIds : Changing(d)' => d = open
  BY <1>1, <1>2, <1>9, Plainly DEF Changing
<1>11. ASSUME NEW r \in Records \cup {None}, Final(disk', requests', open, r)
       PROVE  r # None /\ Covers(server', undone, open, r)
  <2>1. Final(disk, Append(requests, q), open, r)
    BY <1>1, <1>2, <1>11
  <2>2. CASE pending = None
    <3>1. Final(disk, requests, open, r)
      BY <1>1, <1>3, <2>1, <2>2, FinalPush DEF Changes
    <3>2. ~Waits(open) /\ ~Queued(open) /\ ~Changing(open)
      BY <1>2, <2>2, Plainly DEF Waits, Queued, Changing
    <3>3. r # None /\ Content(r) = Content(plan[open])
      BY <1>2, <3>1, <3>2, Numbers DEF Stored, Due
    <3>4. r.rows = plan[open].rows
      BY <1>2, <3>3, SameRows
    <3> QED BY <1>2, <1>3, <1>4, <3>3, <3>4, Numbers DEF Covered, Covers
  <2>3. CASE pending # None
    <3>1. r = pending.record
      BY <1>1, <1>3, <2>1, <2>3, FinalPush DEF Changes
    <3> QED BY <1>2, <1>4, <2>3, <3>1, PendingHeld, PendingCovers, Numbers
  <2> QED BY <2>2, <2>3
<1>12. Founded'
  BY <1>2, <1>10, <1>11 DEF Founded
<1> QED BY <1>1, <1>2, <1>8, <1>12 DEF Served

LEMMA RoutesServed ==
    ASSUME Calm, Shapes, InTurn, Tidy, Served, Founded, NEW d0 \in DocIds, Delete(d0) \/ StartOpen(d0)
    PROVE  Served' /\ Founded'
<1>0. Good(requests) /\ Covered(server, undone, disk, requests, plan)
  BY DEF Shapes, Served
<1>1. CASE Delete(d0)
  <2>1. PICK q \in Request : /\ requests' = Append(requests, q) /\ q.record = None
                             /\ q.then = NoThen
    BY <1>1, DeleteTidy
  <2>2. /\ plan' = [plan EXCEPT ![d0] = None] /\ UNCHANGED <<disk, server, undone>>
        /\ \A t \in Thens(requests) : t.kind \in {"none", "load"}
    BY <1>1, DeleteTidy DEF remote
  <2>3. \A d \in DocIds : Covers(server, undone, d, plan'[d])
    BY <1>0, <2>2 DEF Covered, Covers, Shapes
  <2>4. Covered(server, undone, disk, requests, plan')
    BY <1>0, <2>3, CoveredHeld
  <2>5. Covered(server, undone, disk, Append(requests, q), plan')
    BY <1>0, <2>1, <2>4, CoveredPush DEF Covers
  <2> QED BY <2>1, <2>2, <2>5, FoundedPush, Plainly DEF Served
<1>2. CASE StartOpen(d0)
  <2>1. PICK q \in Request : /\ requests' = Append(Stopped(requests), q)
                             /\ q.op = "get" /\ q.then.kind = "load"
    BY <1>2, StartOpenTidy
  <2>2. /\ UNCHANGED <<disk, plan, server, undone>>
        /\ \A t \in Thens(Stopped(requests)) : t.kind = "none"
    BY <1>2, StartOpenTidy DEF remote
  <2>3. Good(Stopped(requests)) /\ Covered(server, undone, disk, Stopped(requests), plan)
    BY <1>0, CancelFacts, CoveredStopped
  <2>4. Covered(server, undone, disk, Append(Stopped(requests), q), plan)
    BY <2>1, <2>3, CoveredPush
  <2>5. Thens(Append(Stopped(requests), q)) = Thens(Stopped(requests)) \cup {q.then}
    BY <2>3, ThensPush
  <2>6. \A t \in Thens(requests') : t.kind \notin Edits
    BY <2>1, <2>2, <2>5, Plainly
  <2> QED BY <2>1, <2>2, <2>4, <2>6, FoundedNone DEF Served
<1> QED BY <1>1, <1>2

LEMMA ShowServed ==
    ASSUME Calm, "offline" \notin Allowed, Shapes, InTurn, Tidy, Loads, Stored, Served, Founded,
           OpenOnline \/ OpenOffline
    PROVE  Served' /\ Founded'
<1> DEFINE d0 == loading.id
<1>1. PICK record \in Records, q \in Request :
         /\ d0 \in DocIds /\ d0 # open
         /\ plan' = [plan EXCEPT ![d0] = record]
         /\ IF disk[d0] = None \/ disk[d0].shouldFetch
            THEN record.rows = server[d0].rows
            ELSE record.rows = disk[d0].rows
         /\ requests' = Append(requests, q)
         /\ \/ pending = None /\ q.id = d0 /\ q.record = Plain(record) /\ q.then.kind = "none"
            \/ /\ pending # None /\ pending.id = open /\ q.id = open
               /\ q.record = pending.record /\ q.then.kind = "queue"
         /\ \A t \in Thens(requests) : t.kind \in {"none", "load"}
         /\ UNCHANGED <<disk, server, undone>>
  BY ShowTidy DEF remote
<1> HIDE DEF d0
<1>2. Good(requests) /\ Covered(server, undone, disk, requests, plan)
  BY DEF Shapes, Served
<1>3. Covers(server, undone, d0, record) /\ Covers(server, undone, d0, Plain(record))
  <2>1. Covers(server, undone, d0, record)
    BY <1>1, <1>2 DEF Covered, Covers
  <2>2. Plain(record).rows = record.rows /\ record # None
    BY PlainContent, Numbers
  <2> QED BY <2>1, <2>2 DEF Covers
<1>4. \A d \in DocIds : Covers(server, undone, d, plan'[d])
  BY <1>1, <1>2, <1>3 DEF Covered, Shapes
<1>5. Covered(server, undone, disk, requests, plan')
  BY <1>2, <1>4, CoveredHeld
<1>6. Covers(server, undone, q.id, q.record)
  BY <1>1, <1>3, PendingCovers
<1>7. Covered(server, undone, disk, Append(requests, q), plan')
  BY <1>2, <1>5, <1>6, CoveredPush
<1>8. q.then.kind \notin Edits
  BY <1>1, Plainly
<1> QED BY <1>1, <1>7, <1>8, FoundedPush DEF Served

(* No step takes rows from the server that the user did not take back.     *)
Fuller == \A d \in DocIds : server[d].rows \ undone' \subseteq server'[d].rows

LEMMA SavesServed ==
    ASSUME Calm, Shapes, InTurn, Tidy, Stored, Served, Founded,
           StartSave \/ \E b \in BOOLEAN : SaveRead(b)
    PROVE  Served' /\ Founded' /\ Fuller
<1>0. Good(requests) /\ Covered(server, undone, disk, requests, plan)
  BY DEF Shapes, Served
<1>1. CASE StartSave
  <2>1. PICK q \in Request :
           /\ requests' = Append(requests, q) /\ q.then.kind = "save"
           /\ \/ pending = None /\ q.op = "get"
              \/ pending # None /\ q.op = "put" /\ q.id = open /\ q.record = pending.record
    BY <1>1, StartSaveTidy
  <2>2. /\ UNCHANGED <<disk, plan, server, undone>>
        /\ \A t \in Thens(requests) : t.kind \in {"none", "load"}
    BY <1>1, StartSaveTidy DEF remote
  <2>3. q.op # "get" => Covers(server, undone, q.id, q.record)
    BY <2>1, PendingHeld, PendingCovers
  <2>4. Covered(server, undone, disk, Append(requests, q), plan)
    BY <1>0, <2>3, CoveredPush
  <2> QED BY <2>1, <2>2, <2>4, FoundedPush, Plainly DEF Served, Fuller
<1>2. ASSUME NEW b \in BOOLEAN, SaveRead(b) PROVE Served' /\ Founded' /\ Fuller
  <2>1. /\ Answered /\ Head1.op = "get" /\ Head1.then.kind = "save"
        /\ Rest = <<>> /\ Thens(Rest) = {} /\ open \in DocIds /\ pending = None
        /\ plan[open] \in Records /\ UNCHANGED <<disk, pending, undone>>
    BY <1>2, SaveReadTidy
  <2>2. /\ Good(Rest) /\ Thens(requests) = {Head1.then}
        /\ \A d \in DocIds : \A r : Final(disk, Rest, d, r) => Final(disk, requests, d, r)
    BY <2>1, AfterHead, PopFinal
  <2>3. Covered(server, undone, disk, Rest, plan)
    <3>1. requests # <<>> /\ disk \in [DocIds -> Records \cup {None}]
      BY <2>1 DEF Answered, Shapes
    <3> QED BY <1>0, <2>1, <3>1, CoveredPop DEF Head1, Rest
  <2>4. CASE requests' = Rest /\ UNCHANGED <<server, plan>>
    BY <2>1, <2>3, <2>4, FoundedNone DEF Served, Fuller
  <2>5. ASSUME NEW saved \in Records, disk[open] # None, saved.rows = plan[open].rows,
               server' = [server EXCEPT ![open] = saved],
               requests' = Append(Rest, Put(open, saved, NoThen)),
               plan' = [plan EXCEPT ![open] = [plan[open] EXCEPT !.dirty = FALSE]]
        PROVE  Served' /\ Founded' /\ Fuller
    <3> DEFINE q == Put(open, saved, NoThen)
    <3>1. /\ q \in Request /\ q.then.kind = "none" /\ q.id = open /\ q.record = saved
          /\ requests' = Append(Rest, q)
      BY <2>1, <2>5, Makes, Plainly
    <3> HIDE DEF q
    <3>2. [plan[open] EXCEPT !.dirty = FALSE].rows = plan[open].rows
      BY <2>1 DEF Records
    <3>3. /\ plan'[open].rows = plan[open].rows /\ server'[open].rows = plan[open].rows
          /\ \A d \in DocIds \ {open} : plan'[d] = plan[d] /\ server'[d] = server[d]
      BY <2>1, <2>5, <3>2 DEF Shapes
    <3>4. disk[open].rows = plan[open].rows
      <4>1. Final(disk, requests, open, disk[open])
        BY <2>1, <2>2, FinalNone
      <4>2. ~Waits(open) /\ ~Queued(open) /\ ~Changing(open) /\ disk[open] \in Records
        BY <2>1, <2>2, <2>5, Plainly DEF Waits, Queued, Changing, Shapes
      <4>3. Content(disk[open]) = Content(plan[open])
        BY <2>1, <4>1, <4>2, Numbers DEF Stored, Due
      <4> QED BY <2>1, <4>2, <4>3, SameRows
    <3>5. \A d \in DocIds :
             /\ disk[d] # None /\ ~disk[d].shouldFetch => Covers(server', undone, d, disk[d])
             /\ Covers(server', undone, d, plan'[d])
      BY <2>1, <2>3, <3>3, <3>4 DEF Covered, Covers
    <3>6. Covered(server', undone, disk, Rest, plan')
      <4>1. Len(<<>>) = 0
        BY EmptySeq
      <4> QED BY <2>1, <3>5, <4>1 DEF Covered
    <3>7. Covers(server', undone, open, saved)
      BY <2>5, <3>3 DEF Covers
    <3>8. Covered(server', undone, disk, Append(Rest, q), plan')
      BY <2>2, <3>1, <3>6, <3>7, CoveredPush
    <3>9. Thens(Append(Rest, q)) = {q.then}
      BY <2>1, <2>2, <3>1, LonePush
    <3>10. Founded'
      BY <3>1, <3>9, FoundedNone, Plainly
    <3>11. Fuller
      <4>1. server[open].rows \ undone \subseteq plan[open].rows
        BY <2>1, <2>3, Numbers DEF Covered, Covers
      <4> QED BY <2>1, <3>3, <4>1 DEF Fuller
    <3> QED BY <2>1, <3>1, <3>8, <3>10, <3>11 DEF Served
  <2> QED BY <1>2, <2>4, <2>5, SaveReadTidy
<1> QED BY <1>1, <1>2

LEMMA ExitServed ==
    ASSUME Shapes, Tidy, Stored, Served, NEW kicked \in BOOLEAN, Exit(kicked)
    PROVE  Served' /\ Founded'
<1>1. /\ requests' = <<>> /\ plan' = [d \in DocIds |-> None] /\ UNCHANGED <<server, undone>>
  BY DEF Exit, remote
<1>2. Covered(server, undone, disk, requests, plan)
  BY DEF Served
<1>3. ASSUME NEW d \in DocIds, disk'[d] # None, ~disk'[d].shouldFetch
      PROVE  Covers(server, undone, d, disk'[d])
  <2>1. CASE disk'[d] = disk[d]
    BY <1>2, <1>3, <2>1 DEF Covered
  <2>2. ASSUME NEW i \in 1..Len(requests), requests[i].op # "get", requests[i].id = d,
               disk'[d] = requests[i].record
        PROVE  Covers(server, undone, d, disk'[d])
    BY <1>2, <2>2 DEF Covered
  <2>3. CASE pending # None /\ pending.id = d /\ disk'[d] = pending.record
    BY <2>3, PendingCovers
  <2> QED BY <2>1, <2>2, <2>3, ExitFacts
<1>4. Len(<<>>) = 0 /\ Thens(<<>>) = {} /\ \A d \in DocIds : plan'[d] = None
  BY <1>1, EmptySeq DEF Thens
<1>5. Covered(server, undone, disk', <<>>, plan')
  BY <1>3, <1>4 DEF Covered, Covers
<1> QED BY <1>1, <1>4, <1>5, FoundedNone DEF Served

LEMMA ServedStep ==
    ASSUME Calm, "offline" \notin Allowed, Shapes, InTurn, Tidy, Loads, Stored, Served, Founded,
           [Next]_vars
    PROVE  Served' /\ Founded' /\ Fuller
<1>1. CASE PutDone \/ EditRead \/ Deleted \/ Ignored \/ LoadRead
  <2>1. UNCHANGED remote
    BY <1>1 DEF PutDone, EditRead, Deleted, Ignored, LoadRead
  <2>2. server' = server
    BY <2>1 DEF remote
  <2> QED BY <1>1, <2>2, EditReadServed, AnswersServed DEF Fuller
<1>2. CASE TimerFires \/ Stroke \/ \E s \in Stamps : Undo(s)
  <2>1. server' = server
    BY <1>2, TimerTidy, StrokeTidy, UndoTidy DEF remote
  <2> QED BY <1>2, <2>1, TimerServed, StrokeServed, UndoServed DEF Fuller
<1>3. CASE SetCount \/ \E kind \in Flushing : EditMetadata(kind)
  BY <1>3, MetadataServed, MetadataTidy DEF Fuller
<1>4. CASE \E d \in DocIds : Delete(d) \/ StartOpen(d)
  <2>1. server' = server
    BY <1>4 DEF Delete, StartOpen, remote
  <2> QED BY <1>4, <2>1, RoutesServed DEF Fuller
<1>5. CASE OpenOnline \/ OpenOffline
  <2>1. server' = server
    BY <1>5 DEF OpenOnline, OpenOffline, Show, remote
  <2> QED BY <1>5, <2>1, ShowServed DEF Fuller
<1>6. CASE StartSave \/ \E b \in BOOLEAN : SaveRead(b)
  BY <1>6, SavesServed
<1>7. CASE \E b \in BOOLEAN : Exit(b)
  <2>1. server' = server
    BY <1>7 DEF Exit, remote
  <2> QED BY <1>7, <2>1, ExitServed DEF Fuller
<1>8. CASE OpenFails \/ UNCHANGED vars
  <2>1. UNCHANGED <<disk, requests, plan, server, undone>>
    BY <1>8 DEF OpenFails, remote, vars
  <2> QED BY <2>1 DEF Served, Founded, Changing, Fuller
<1> QED BY <1>1, <1>2, <1>3, <1>4, <1>5, <1>6, <1>7, <1>8 DEF Next

(* Unless one of the Coincidences happens, no step takes rows from the     *)
(* server's plan that the user did not take back: the record that a save   *)
(* needs is there and holds what the tab shows, and what the tab shows,    *)
(* from the record or from the server, has the server's rows.  Opening a   *)
(* migrated document while the server is away breaks it.                   *)
THEOREM ServerKeepsPlan ==
    ASSUME Calm, "offline" \notin Allowed
    PROVE  Spec => SaveKeepsPlan
<1> DEFINE Known == Shapes /\ InTurn /\ Tidy /\ Loads /\ Stored /\ Served /\ Founded
           Keep == \A d \in DocIds : server[d].rows \ undone' \subseteq server'[d].rows
<1>1. Init => Known
  BY InitShapes, InitTidy, InitStored, InitServed
<1>2. Known /\ [Next]_vars => Known' /\ Keep
  <2> SUFFICES ASSUME Known, [Next]_vars PROVE Known' /\ Keep
    OBVIOUS
  <2>1. Served' /\ Founded' /\ Fuller
    BY ServedStep
  <2>2. Shapes' /\ InTurn' /\ Tidy' /\ Loads' /\ Stored'
    BY ShapesStep, TurnsStep, TidyStep, LoadsStep, StoredStep
  <2> QED BY <2>1, <2>2 DEF Fuller
<1>3. Known /\ [Next]_vars => [Keep]_vars
  BY <1>2
<1> QED BY <1>1, <1>2, <1>3, PTL DEF Spec, SaveKeepsPlan

=============================================================================
