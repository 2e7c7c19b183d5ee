-------------------------- MODULE EvaluationProofs ---------------------------
(***************************************************************************)
(* What is proved of Evaluation for any number of requests and saves, with *)
(* saves that do not commit in the middle of what they spoil: a cached     *)
(* evaluation that counts as fresh is complete and of the current plan.    *)
(***************************************************************************)
EXTENDS Evaluation, TLAPS

Stages == {"idle", "asking", "compute", "building", "metrics", "store", "answered"}

RequestTypes == [stage: Stages, lock: BOOLEAN, late: BOOLEAN, start: Nat \cup {None},
                 polls: Nat, had: BOOLEAN, stats: Nat \cup {None}, rows: Nat \cup {None},
                 failed: BOOLEAN]
RowTypes == [stats: Nat \cup {None}, rows: Nat \cup {None}, failed: BOOLEAN,
             current: BOOLEAN, stamp: Nat \cup {None}]

Typed ==
    /\ plan \in Nat /\ updated \in Nat /\ clock \in Nat
    /\ stats \in Nat \cup {None}
    /\ row \in RowTypes \cup {None}
    /\ save \in Nat \cup {None}
    /\ req \in [Readers -> RequestTypes]

\* An open save is later than the last one that was committed.
SavesOrdered == /\ updated <= clock
                /\ save # None => updated < save /\ save <= clock

\* What a transaction that started at t has computed is of the current plan, and
\* will be seen to be old when an open save commits, unless it is old already.
UpToDate(t, its) ==
    updated <= t => /\ \A p \in its : p = plan
                    /\ save # None => t < save

RequestCurrent(q) ==
    /\ q.start # None => q.start <= clock
    /\ q.stage \in {"asking", "compute", "building", "store"} => q.start # None
    /\ q.stage = "building" => q.stats = plan
    /\ q.stage = "metrics" =>
           IF q.start = None THEN q.stats = plan ELSE UpToDate(q.start, {q.stats})
    /\ q.stage = "store" => UpToDate(q.start, {q.stats, q.rows})

RowCurrent ==
    row # None =>
        /\ row.stamp # None /\ row.stamp <= clock
        /\ row.current => ~row.failed
        /\ updated <= row.stamp => /\ save # None => row.stamp < save
                                   /\ plan # 0 => row.stats = plan /\ row.rows = plan

IInv == /\ Typed
        /\ SavesOrdered
        /\ stats # None => stats = plan
        /\ \A r \in Readers : RequestCurrent(req[r])
        /\ RowCurrent

-----------------------------------------------------------------------------

LEMMA InitIInv == Init => IInv
BY ConstantsOK DEF Init, IInv, Typed, SavesOrdered, RequestCurrent, RowCurrent, Idle,
                   RequestTypes, Stages

\* An action that changes one request and nothing else.
LEMMA OneRequest ==
    ASSUME IInv, NEW r \in Readers, NEW q \in RequestTypes, RequestCurrent(q), Set(r, q),
           UNCHANGED <<plan, updated, stats, row, save, clock>>
    PROVE  IInv'
<1>1. Typed'
  BY DEF IInv, Typed, Set
<1>2. \A s \in Readers : RequestCurrent(req[s])'
  BY DEF IInv, Typed, Set, RequestCurrent, UpToDate
<1> QED BY <1>1, <1>2 DEF IInv, SavesOrdered, RowCurrent

LEMMA BeginSaveIInv == IInv /\ BeginSave => IInv'
<1> SUFFICES ASSUME IInv, BeginSave PROVE IInv'
  OBVIOUS
<1> USE DEF BeginSave
<1>1. Typed' /\ SavesOrdered'
  BY ConstantsOK DEF IInv, Typed, SavesOrdered
<1>2. \A r \in Readers : RequestCurrent(req[r])'
  BY ConstantsOK DEF IInv, Typed, RequestTypes, RequestCurrent, UpToDate
<1>3. RowCurrent'
  BY ConstantsOK DEF IInv, Typed, RowTypes, RowCurrent
<1> QED BY <1>1, <1>2, <1>3 DEF IInv

\* What was read before the commit is older than the document from then on.
LEMMA CommitSaveIInv == ~Overlapping /\ IInv /\ CommitSave => IInv'
<1> SUFFICES ASSUME ~Overlapping, IInv, CommitSave PROVE IInv'
  OBVIOUS
<1> USE DEF CommitSave
<1>1. Typed' /\ SavesOrdered'
  BY ConstantsOK DEF IInv, Typed, SavesOrdered
<1>2. ASSUME NEW r \in Readers PROVE RequestCurrent(req[r])'
  <2>1. RequestCurrent(req[r]) /\ req[r] \in RequestTypes /\ ~Rebuilding(r)
    BY DEF IInv, Typed
  <2> QED BY <2>1, ConstantsOK
          DEF IInv, Typed, SavesOrdered, RequestTypes, RequestCurrent, UpToDate, Rebuilding
<1>3. RowCurrent'
  BY ConstantsOK DEF IInv, Typed, SavesOrdered, RowTypes, RowCurrent
<1> QED BY <1>1, <1>2, <1>3 DEF IInv

LEMMA AbortSaveIInv == IInv /\ AbortSave => IInv'
<1> SUFFICES ASSUME IInv, AbortSave PROVE IInv'
  OBVIOUS
<1> USE DEF AbortSave
<1>1. Typed' /\ SavesOrdered'
  BY DEF IInv, Typed, SavesOrdered
<1>2. \A r \in Readers : RequestCurrent(req[r])'
  BY DEF IInv, RequestCurrent, UpToDate
<1>3. RowCurrent'
  BY DEF IInv, RowCurrent
<1> QED BY <1>1, <1>2, <1>3 DEF IInv

LEMMA ResetIInv == ~Overlapping /\ IInv /\ Reset => IInv'
<1> SUFFICES ASSUME ~Overlapping, IInv, Reset PROVE IInv'
  OBVIOUS
<1> USE DEF Reset
<1>1. Typed' /\ SavesOrdered'
  BY DEF IInv, Typed, SavesOrdered
<1>2. \A r \in Readers : RequestCurrent(req[r])'
  BY DEF IInv, RequestCurrent
<1>3. RowCurrent'
  BY DEF IInv, RowCurrent
<1> QED BY <1>1, <1>2, <1>3 DEF IInv

LEMMA ReadRowOK ==
    ASSUME IInv, NEW r \in Readers
    PROVE  ReadRow(r) \in RequestTypes /\ RequestCurrent(ReadRow(r))
<1>1. Answered \in RequestTypes /\ RequestCurrent(Answered)
  BY ConstantsOK DEF Answered, Idle, RequestTypes, Stages, RequestCurrent
<1>2. req[r] \in RequestTypes /\ clock \in Nat
  BY DEF IInv, Typed
<1>3. [req[r] EXCEPT !.stage = "asking", !.start = clock, !.had = row # None] \in RequestTypes
  BY <1>2 DEF RequestTypes, Stages
<1>4. RequestCurrent([req[r] EXCEPT !.stage = "asking", !.start = clock, !.had = row # None])
  BY <1>2, ConstantsOK DEF RequestTypes, RequestCurrent
<1> QED BY <1>1, <1>3, <1>4 DEF ReadRow

LEMMA AskIInv == ASSUME IInv, NEW r \in Readers, Ask(r) PROVE IInv'
BY ReadRowOK, OneRequest DEF Ask

LEMMA TryLockIInv == ASSUME IInv, NEW r \in Readers, TryLock(r) PROVE IInv'
<1> DEFINE q == IF Fresh THEN Answered
                ELSE [req[r] EXCEPT !.stage = "compute", !.lock = TRUE, !.had = row # None]
<1>1. req[r] \in RequestTypes /\ RequestCurrent(req[r]) /\ req[r].stage = "asking"
  BY DEF IInv, Typed, TryLock
<1>2. q \in RequestTypes /\ RequestCurrent(q)
  BY <1>1, ConstantsOK DEF Answered, Idle, RequestTypes, Stages, RequestCurrent
<1> QED BY <1>2, OneRequest DEF TryLock

LEMMA PollIInv == ASSUME IInv, NEW r \in Readers, Poll(r) PROVE IInv'
<1> DEFINE q == IF ReadRow(r).stage = "answered" THEN ReadRow(r)
                ELSE IF Late(r) THEN [ReadRow(r) EXCEPT !.stage = "compute", !.late = TRUE]
                ELSE [ReadRow(r) EXCEPT !.polls = IF @ < MaxPolls THEN @ + 1 ELSE @]
<1>1. ReadRow(r) \in RequestTypes /\ RequestCurrent(ReadRow(r))
  BY ReadRowOK
<1>2. ReadRow(r).stage \in {"answered", "asking"}
  BY DEF IInv, Typed, ReadRow, Answered, Idle, RequestTypes
<1>3. CASE ReadRow(r).stage = "answered"
  BY <1>1, <1>3, OneRequest DEF Poll
<1>4. CASE ReadRow(r).stage = "asking" /\ Late(r)
  <2>1. q \in RequestTypes
    BY <1>1, <1>4 DEF RequestTypes, Stages
  <2>2. RequestCurrent(q)
    BY <1>1, <1>4 DEF RequestTypes, RequestCurrent
  <2> QED BY <2>1, <2>2, OneRequest DEF Poll
<1>5. CASE ReadRow(r).stage = "asking" /\ ~Late(r)
  <2>1. q \in RequestTypes
    BY <1>1, <1>5 DEF RequestTypes
  <2>2. RequestCurrent(q)
    BY <1>1, <1>5 DEF RequestTypes, RequestCurrent
  <2> QED BY <2>1, <2>2, OneRequest DEF Poll
<1> QED BY <1>2, <1>3, <1>4, <1>5

LEMMA CachedStatsIInv ==
    ASSUME ~Overlapping, IInv, NEW r \in Readers, CachedStats(r) PROVE IInv'
<1> DEFINE q == [req[r] EXCEPT !.stage = "metrics", !.stats = stats]
<1>1. req[r] \in RequestTypes /\ RequestCurrent(req[r]) /\ req[r].stage = "compute"
  BY DEF IInv, Typed, CachedStats
<1>2. stats = plan /\ Settled(req[r].start)
  BY DEF IInv, CachedStats
<1>3. q \in RequestTypes /\ RequestCurrent(q)
  BY <1>1, <1>2, ConstantsOK
  DEF IInv, Typed, RequestTypes, Stages, RequestCurrent, UpToDate, Settled
<1> QED BY <1>3, OneRequest DEF CachedStats

LEMMA BuildStatsIInv == ASSUME IInv, NEW r \in Readers, BuildStats(r) PROVE IInv'
<1> DEFINE q == [req[r] EXCEPT !.stage = "building", !.stats = plan]
<1>1. req[r] \in RequestTypes /\ RequestCurrent(req[r]) /\ req[r].stage = "compute"
  BY DEF IInv, Typed, BuildStats
<1>2. q \in RequestTypes /\ RequestCurrent(q)
  BY <1>1 DEF IInv, Typed, RequestTypes, Stages, RequestCurrent
<1> QED BY <1>2, OneRequest DEF BuildStats

LEMMA CommitStatsIInv == ASSUME IInv, NEW r \in Readers, CommitStats(r) PROVE IInv'
<1> DEFINE q == [req[r] EXCEPT !.stage = "metrics", !.lock = FALSE, !.start = None]
<1>1. req[r] \in RequestTypes /\ RequestCurrent(req[r]) /\ req[r].stage = "building"
  BY DEF IInv, Typed, CommitStats
<1>2. req[r].stats = plan
  BY <1>1 DEF RequestCurrent
<1>3. q \in RequestTypes /\ RequestCurrent(q)
  BY <1>1, <1>2 DEF RequestTypes, Stages, RequestCurrent
<1>4. stats' = plan
  BY <1>2 DEF IInv, CommitStats
<1>5. Typed'
  BY <1>3, <1>4 DEF IInv, Typed, CommitStats, Set
<1>6. \A s \in Readers : RequestCurrent(req[s])'
  BY <1>3 DEF IInv, Typed, CommitStats, Set, RequestCurrent, UpToDate
<1> QED BY <1>4, <1>5, <1>6 DEF IInv, CommitStats, SavesOrdered, RowCurrent

LEMMA ReadRowsIInv ==
    ASSUME ~Overlapping, IInv, NEW r \in Readers, ReadRows(r) PROVE IInv'
<1>1. req[r] \in RequestTypes /\ RequestCurrent(req[r]) /\ req[r].stage = "metrics"
  BY DEF IInv, Typed, ReadRows
<1>2. Settled(req[r].start)
  BY DEF ReadRows
<1>3. PICK failed \in BOOLEAN :
        Set(r, [req[r] EXCEPT !.stage = "store",
                              !.start = IF @ = None THEN clock ELSE @,
                              !.rows = IF req[r].stats = 0 THEN 0 ELSE plan,
                              !.failed = failed])
  BY DEF ReadRows
<1> DEFINE q == [req[r] EXCEPT !.stage = "store",
                               !.start = IF @ = None THEN clock ELSE @,
                               !.rows = IF req[r].stats = 0 THEN 0 ELSE plan,
                               !.failed = failed]
<1>4. q \in RequestTypes
  BY <1>1 DEF IInv, Typed, RequestTypes, Stages
<1>5. RequestCurrent(q)
  <2>1. CASE req[r].start = None
    BY <2>1, <1>1, <1>2, ConstantsOK
    DEF IInv, Typed, RequestTypes, RequestCurrent, UpToDate, Settled
  <2>2. CASE req[r].start # None
    BY <2>2, <1>1, <1>2, ConstantsOK
    DEF IInv, Typed, RequestTypes, RequestCurrent, UpToDate, Settled
  <2> QED BY <2>1, <2>2
<1> QED BY <1>3, <1>4, <1>5, OneRequest DEF ReadRows

LEMMA AnsweredOK == Answered \in RequestTypes /\ RequestCurrent(Answered)
BY ConstantsOK DEF Answered, Idle, RequestTypes, Stages, RequestCurrent

LEMMA StoreIInv == ASSUME IInv, NEW r \in Readers, Store(r) PROVE IInv'
<1> DEFINE new == [stats |-> req[r].stats, rows |-> req[r].rows, failed |-> req[r].failed,
                   current |-> VersionIsCurrent(req[r].failed), stamp |-> StampOf(r)]
<1>1. req[r] \in RequestTypes /\ RequestCurrent(req[r]) /\ req[r].stage = "store"
  BY DEF IInv, Typed, Store
<1>2. new \in RowTypes
  BY <1>1 DEF RequestTypes, RowTypes, VersionIsCurrent, StampOf
<1>3. Typed'
  BY <1>2, AnsweredOK DEF IInv, Typed, Store, Set
<1>4. \A s \in Readers : RequestCurrent(req[s])'
  BY AnsweredOK DEF IInv, Typed, Store, Set, RequestCurrent, UpToDate
<1>5. CASE row' = row
  BY <1>3, <1>4, <1>5 DEF IInv, Store, SavesOrdered, RowCurrent
<1>6. CASE row' = new
  <2> DEFINE start == req[r].start
  <2>1. /\ start # None /\ start <= clock
        /\ updated <= start => req[r].stats = plan /\ req[r].rows = plan
        /\ updated <= start /\ save # None => start < save
    BY <1>1 DEF RequestCurrent, UpToDate
  <2>2. /\ row'.stamp = start /\ (row'.current <=> ~row'.failed)
        /\ row'.stats = req[r].stats /\ row'.rows = req[r].rows
    BY <1>6 DEF VersionIsCurrent, StampOf
  <2>3. UNCHANGED <<plan, updated, save, clock>>
    BY DEF Store
  <2> HIDE DEF start
  <2>4. RowCurrent'
    BY <2>1, <2>2, <2>3 DEF RowCurrent
  <2> QED BY <2>4, <1>3, <1>4 DEF IInv, Store, SavesOrdered
<1> QED BY <1>5, <1>6 DEF Store

LEMMA FinishIInv == ASSUME IInv, NEW r \in Readers, Finish(r) PROVE IInv'
<1>1. Idle \in RequestTypes /\ RequestCurrent(Idle)
  BY ConstantsOK DEF Idle, RequestTypes, Stages, RequestCurrent
<1> QED BY <1>1, OneRequest DEF Finish

LEMMA NextIInv == ASSUME ~Overlapping, IInv, [Next]_vars PROVE IInv'
<1>1. CASE UNCHANGED vars
  BY <1>1 DEF vars, IInv, Typed, SavesOrdered, RequestCurrent, UpToDate, RowCurrent
<1>2. CASE BeginSave \/ CommitSave \/ AbortSave \/ Reset
  BY <1>2, BeginSaveIInv, CommitSaveIInv, AbortSaveIInv, ResetIInv
<1>3. ASSUME NEW r \in Readers, Ask(r) \/ Work(r) \/ Finish(r) PROVE IInv'
  BY <1>3, AskIInv, TryLockIInv, PollIInv, CachedStatsIInv, BuildStatsIInv, CommitStatsIInv,
     ReadRowsIInv, StoreIInv, FinishIInv DEF Work
<1> QED BY <1>1, <1>2, <1>3 DEF Next

LEMMA FreshFollows == IInv => FreshIsCurrent
BY DEF IInv, RowCurrent, FreshIsCurrent, Fresh

\* A fresh row is complete and of the current plan, for every number of requests,
\* of saves and of polls (FreshIsCurrent; _cached_envelope's "Fresh iff").
THEOREM FreshCurrent == ASSUME ~Overlapping PROVE Spec => []FreshIsCurrent
<1>1. Spec => Init /\ [][Next]_vars
  BY PTL DEF Spec
<1>2. IInv /\ [Next]_vars => IInv'
  BY NextIInv
<1> QED BY <1>1, <1>2, InitIInv, FreshFollows, PTL
=============================================================================
