----------------------------- MODULE Evaluation ------------------------------
(***************************************************************************)
(* The evaluation of a document: metrics computed on request, from the     *)
(* district statistics and from the assignment rows, and cached in the     *)
(* document's row of document.evaluation, which counts as fresh by its     *)
(* version and its timestamp (evaluation/main.py, context.py).  Requests   *)
(* for one document are kept apart by an advisory lock that lasts as long  *)
(* as the transaction.                                                     *)
(*                                                                         *)
(* A plan is a number: 0 is the empty plan, and every save makes a new     *)
(* one.  What was computed from a plan is modelled by that number, so the  *)
(* statistics of DistrictStats are here the number of the plan they tell   *)
(* of.  The clock moves when a save starts, which is enough to order every *)
(* transaction before or after every save.                                 *)
(***************************************************************************)
EXTENDS Naturals

CONSTANTS Readers,      \* requests for the evaluation or an export of it
          Lively,       \* those of them that do not hang
          None,
          MaxSaves,     \* bound: plans ever saved
          MaxPolls,     \* EVAL_LOCK_WAIT_SECONDS in polls
          Overlapping   \* whether a save may commit in the middle of what it spoils

ASSUME ConstantsOK ==
    /\ Lively \subseteq Readers
    /\ None \notin Nat
    /\ {MaxSaves, MaxPolls} \subseteq Nat
    /\ Overlapping \in BOOLEAN

VARIABLES plan,     \* document.assignments, by the number of the plan
          updated,  \* document.updated_at
          stats,    \* the plan document.district_unions tells of, or None
          row,      \* document.evaluation, or None
          save,     \* the start of the transaction of a save, or None
          req,      \* every request
          clock

vars == <<plan, updated, stats, row, save, req, clock>>

Idle == [stage |-> "idle", lock |-> FALSE, late |-> FALSE, start |-> None, polls |-> 0,
         had |-> FALSE, stats |-> None, rows |-> None, failed |-> FALSE]

Init ==
    /\ plan = 0 /\ updated = 0 /\ clock = 0
    /\ stats = None /\ row = None /\ save = None
    /\ req = [r \in Readers |-> Idle]

Computing(r) == req[r].stage \in {"compute", "building", "metrics", "store"}

\* The plan must not change under r: its statistics are being rebuilt, or
\* were in a transaction that has ended.
Rebuilding(r) == \/ req[r].stage = "building"
                 \/ req[r].stage = "metrics" /\ req[r].start = None

\* No open save began before a transaction that started at t: what is read in
\* that transaction is up to date, or is seen to be older than the document.
Settled(t) == save # None => t # None /\ save > t

-----------------------------------------------------------------------------
(* Saves and resets *)

BeginSave ==
    /\ save = None
    /\ clock < MaxSaves
    /\ save' = clock + 1
    /\ clock' = clock + 1
    /\ UNCHANGED <<plan, updated, stats, row, req>>

\* now() is the start of the transaction; the districts that changed lose
\* their statistics.
CommitSave ==
    /\ save # None
    /\ Overlapping \/ \A r \in Readers : ~Rebuilding(r)
    /\ plan' = save
    /\ updated' = save
    /\ stats' = None
    /\ save' = None
    /\ UNCHANGED <<row, req, clock>>

AbortSave ==
    /\ save # None
    /\ save' = None
    /\ UNCHANGED <<plan, updated, stats, row, req, clock>>

\* reset_map leaves updated_at as it is.
Reset ==
    /\ save = None
    /\ Overlapping \/ \A r \in Readers : req[r].stage \notin {"building", "metrics", "store"}
    /\ plan' = 0
    /\ stats' = None
    /\ UNCHANGED <<updated, row, save, req, clock>>

-----------------------------------------------------------------------------
(* update_or_select_document_evaluation *)

Set(r, rec) == req' = [req EXCEPT ![r] = rec]

\* _cached_envelope: written under the version of every registered metric,
\* and not before the document was last changed.
Fresh == row # None /\ row.current /\ row.stamp >= updated

Answered == [Idle EXCEPT !.stage = "answered"]

\* The row is read, by a transaction that starts with it.
ReadRow(r) == IF Fresh THEN Answered
              ELSE [req[r] EXCEPT !.stage = "asking", !.start = clock, !.had = row # None]

Ask(r) ==
    /\ req[r].stage = "idle"
    /\ Set(r, ReadRow(r))
    /\ UNCHANGED <<plan, updated, stats, row, save, clock>>

\* pg_try_advisory_xact_lock succeeds: the row is read once more.
TryLock(r) ==
    /\ req[r].stage = "asking"
    /\ \A q \in Readers : ~req[q].lock
    /\ Set(r, IF Fresh THEN Answered
              ELSE [req[r] EXCEPT !.stage = "compute", !.lock = TRUE, !.had = row # None])
    /\ UNCHANGED <<plan, updated, stats, row, save, clock>>

(* Bug: whoever waits does so for ever. *)
NeverLate(r) == FALSE

Late(r) == req[r].polls >= MaxPolls

\* It fails: the transaction ends, and after a while the row is read in a new
\* one; when the deadline has passed the metrics are computed without the lock.
Poll(r) ==
    /\ req[r].stage = "asking"
    /\ \E q \in Readers : req[q].lock
    /\ Set(r, IF ReadRow(r).stage = "answered" THEN ReadRow(r)
              ELSE IF Late(r) THEN [ReadRow(r) EXCEPT !.stage = "compute", !.late = TRUE]
              ELSE [ReadRow(r) EXCEPT !.polls = IF @ < MaxPolls THEN @ + 1 ELSE @])
    /\ UNCHANGED <<plan, updated, stats, row, save, clock>>

-----------------------------------------------------------------------------
(* compute_metrics *)

\* district_stats, when every row is cached ...
CachedStats(r) ==
    /\ req[r].stage = "compute"
    /\ stats # None
    /\ Overlapping \/ Settled(req[r].start)
    /\ Set(r, [req[r] EXCEPT !.stage = "metrics", !.stats = stats])
    /\ UNCHANGED <<plan, updated, stats, row, save, clock>>

\* ... or when they are rebuilt from the assignments ...
BuildStats(r) ==
    /\ req[r].stage = "compute"
    /\ stats = None
    /\ Set(r, [req[r] EXCEPT !.stage = "building", !.stats = plan])
    /\ UNCHANGED <<plan, updated, stats, row, save, clock>>

\* ... and committed, which ends the transaction and with it the lock.
CommitStats(r) ==
    /\ req[r].stage = "building"
    /\ stats' = IF stats = None THEN req[r].stats ELSE stats
    /\ Set(r, [req[r] EXCEPT !.stage = "metrics", !.lock = FALSE, !.start = None])
    /\ UNCHANGED <<plan, updated, row, save, clock>>

(* Bug: the version of the whole registry, whatever failed. *)
VersionOfAll(failed) == TRUE

\* Whether hash_payload_version of the metrics that succeeded is
\* CURRENT_PAYLOAD_VERSION.
VersionIsCurrent(failed) == ~failed

\* zone_assignments and the metrics, each of which may fail; a plan without
\* districts has none.
ReadRows(r) ==
    /\ req[r].stage = "metrics"
    /\ Overlapping \/ Settled(req[r].start)
    /\ \E failed \in BOOLEAN :
          /\ req[r].stats = 0 => ~failed
          /\ Set(r, [req[r] EXCEPT !.stage = "store",
                                   !.start = IF @ = None THEN clock ELSE @,
                                   !.rows = IF req[r].stats = 0 THEN 0 ELSE plan,
                                   !.failed = failed])
    /\ UNCHANGED <<plan, updated, stats, row, save, clock>>

(* Bug: the time of the write. *)
StampNow(r) == clock

\* The row is updated, or inserted when there was none; an insertion that
\* somebody else was faster with is rolled back.  now() is the start of the
\* transaction.
StampOf(r) == req[r].start

Store(r) ==
    /\ req[r].stage = "store"
    /\ row' = IF row # None /\ ~req[r].had THEN row
              ELSE [stats |-> req[r].stats, rows |-> req[r].rows, failed |-> req[r].failed,
                    current |-> VersionIsCurrent(req[r].failed), stamp |-> StampOf(r)]
    /\ Set(r, Answered)
    /\ UNCHANGED <<plan, updated, stats, save, clock>>

\* The answer is sent, or the request fails: its transaction ends.
Finish(r) ==
    /\ req[r].stage # "idle"
    /\ Set(r, Idle)
    /\ UNCHANGED <<plan, updated, stats, row, save, clock>>

Work(r) == \/ TryLock(r) \/ Poll(r) \/ CachedStats(r) \/ BuildStats(r) \/ CommitStats(r)
           \/ ReadRows(r) \/ Store(r)

Next ==
    \/ BeginSave \/ CommitSave \/ AbortSave \/ Reset
    \/ \E r \in Readers : Ask(r) \/ Work(r) \/ Finish(r)

\* A save that is open ends.  A request goes on unless it hangs, and then it
\* may hang holding the lock.
Spec ==
    /\ Init /\ [][Next]_vars
    /\ WF_vars(CommitSave)
    /\ \A r \in Lively : WF_vars(Work(r))

-----------------------------------------------------------------------------

\* A cached evaluation that counts as fresh has every metric ("Failures are
\* never cached"), and all of them tell of the plan as it is (_cached_envelope:
\* "Fresh iff ... `updated_at` is at least as new as the document's"), whoever
\* computed and saved meanwhile.  A plan that was reset is excepted.
FreshIsCurrent == Fresh /\ plan # 0 => ~row.failed /\ row.stats = plan /\ row.rows = plan

\* The same with plans that were reset ("Fresh iff ... at least as new").
FreshAfterReset == Fresh => row.stats = plan /\ row.rows = plan

\* A request that found no fresh row is answered or computes itself even though
\* another one hangs with the lock ("Winner is wedged; compute without the lock
\* rather than fail").
RequestsProceed == \A r \in Lively : req[r].stage = "asking" ~> req[r].stage # "asking"

\* "a per-document Postgres advisory lock serializes computes across all
\* backend tasks so a thundering herd of cache-cold requests runs one compute
\* instead of N": two requests compute at a time only after the deadline.
OneCompute ==
    \A r, q \in Readers :
        Computing(r) /\ Computing(q) => r = q \/ req[r].late \/ req[q].late
=============================================================================
