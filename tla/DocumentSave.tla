---------------------------- MODULE DocumentSave ----------------------------
(***************************************************************************)
(* Saving one plan from several browsers.  Each client holds the plan in   *)
(* its tab and in its IndexedDB, and knows the updated_at of the version   *)
(* it started from.  A save is a PUT guarded by that timestamp; the        *)
(* endpoint checks it, deletes the old rows, inserts the new ones and      *)
(* commits, in one READ COMMITTED transaction per request.  Requests fail, *)
(* answers get lost, tabs reload, and a conflict is resolved in one of     *)
(* four ways.                                                              *)
(***************************************************************************)
EXTENDS Integers, FiniteSets

CONSTANTS
    Clients,     \* browsers with the edit link of the document
    Geos,        \* geographies
    Zones,       \* what a row of document.assignments may say
    NoRow,       \* a geography without a row
    Puts,        \* the PUT requests a behaviour can make
    MaxClock,    \* bound on the transaction timestamps handed out
    None,        \* no request
    Overlapping  \* whether the server works on several PUTs at a time

ASSUME SaveAssumption ==
    /\ NoRow \notin Zones
    /\ None \notin Puts
    /\ MaxClock \in Nat \ {0}
    /\ Overlapping \in BOOLEAN

VARIABLES
    server,  \* rows, the request that wrote each row, document.updated_at
    put,     \* every PUT request, with its transaction
    tab,     \* what each client's stores hold
    disk,    \* each client's IndexedDB record of the document
    clock    \* the last transaction timestamp

vars == <<server, put, tab, disk, clock>>

Stamps  == 1..MaxClock
Unknown == 0      \* no version: nothing loaded, nothing stored, nothing offered
Plans   == [Geos -> Zones \cup {NoRow}]
Empty   == [g \in Geos |-> NoRow]

RowsOf(plan) == {g \in Geos : plan[g] # NoRow}

Phases == {"away",      \* no tab is open on the document
           "opening",   \* fetchDocument has the server's updated_at
           "adopting",  \* waiting for the server's rows
           "editing",
           "saving",    \* waiting for the answer to the PUT
           "checking",  \* reading the saved rows back
           "conflict",  \* SaveConflictModal
           "clash"}     \* SyncConflictModal while loading

Unsent == [stage |-> "unsent", owner |-> None, rows |-> Empty, base |-> Unknown,
           force |-> FALSE, start |-> Unknown, seen |-> [g \in Geos |-> None], gone |-> {}]

Closed == [phase |-> "away", rows |-> Empty, base |-> Unknown, dirty |-> FALSE,
           offer |-> Unknown, put |-> None]

Active(p) == put[p].stage \in {"checked", "deleting", "deleted", "inserted"}

Init ==
    /\ clock = 1
    /\ server = [rows |-> Empty, writer |-> [g \in Geos |-> None], stamp |-> 1]
    /\ put = [p \in Puts |-> Unsent]
    /\ tab = [c \in Clients |-> Closed]
    /\ disk = [c \in Clients |-> [rows |-> Empty, base |-> Unknown, dirty |-> FALSE]]

-----------------------------------------------------------------------------
(* Opening the document, and taking the server's version *)

GoTo(c, phase) == tab' = [tab EXCEPT ![c].phase = phase]

(* Nothing came of it: back to the plan as it is in the tab. *)
GoBack(c) == tab' = [tab EXCEPT ![c].phase = "editing", ![c].offer = Unknown, ![c].put = None]

(* The document is in the tab: rows that started from version base. *)
Show(c, rows, base, dirty) ==
    tab' = [tab EXCEPT ![c] = [@ EXCEPT !.phase = "editing", !.rows = rows, !.base = base,
                                        !.dirty = dirty, !.offer = Unknown, !.put = None]]

(* Bug: the record is written without clientLastUpdated. *)
StoreUndated(c, rows, base, dirty) == disk' = [disk EXCEPT ![c] = [rows |-> rows, base |-> base]]

Store(c, rows, base, dirty) ==
    disk' = [disk EXCEPT ![c] = [rows |-> rows, base |-> base, dirty |-> dirty]]

(* fetchDocument reads the local record and the server's metadata first. *)
Open(c) ==
    /\ tab[c].phase = "away"
    /\ tab' = [tab EXCEPT ![c].phase = "opening", ![c].offer = server.stamp]
    /\ UNCHANGED <<server, put, disk, clock>>

(* The metadata could not be read: the local record is shown. *)
OpenOffline(c) ==
    /\ tab[c].phase = "away" /\ disk[c].base # Unknown
    /\ Show(c, disk[c].rows, disk[c].base, disk[c].dirty)
    /\ UNCHANGED <<server, put, disk, clock>>

(* The local record is of the server's version, edited or not. *)
OpenLocal(c) ==
    /\ tab[c].phase = "opening" /\ disk[c].base = tab[c].offer
    /\ Show(c, disk[c].rows, disk[c].base, disk[c].dirty)
    /\ UNCHANGED <<server, put, disk, clock>>

OpenFirst(c) ==
    /\ tab[c].phase = "opening" /\ disk[c].base = Unknown
    /\ GoTo(c, "adopting")
    /\ UNCHANGED <<server, put, disk, clock>>

OpenClash(c) ==
    /\ tab[c].phase = "opening" /\ disk[c].base \notin {Unknown, tab[c].offer}
    /\ GoTo(c, "clash")
    /\ UNCHANGED <<server, put, disk, clock>>

(* handleRevert fetches the server's version with its metadata first. *)
Revert(c) ==
    /\ tab[c].phase = "editing"
    /\ tab' = [tab EXCEPT ![c].phase = "adopting", ![c].offer = server.stamp]
    /\ UNCHANGED <<server, put, disk, clock>>

(* The rows arrive after the metadata they are stored with. *)
Adopt(c) ==
    /\ tab[c].phase = "adopting"
    /\ Show(c, server.rows, tab[c].offer, FALSE)
    /\ Store(c, server.rows, tab[c].offer, FALSE)
    /\ UNCHANGED <<server, put, clock>>

AdoptFails(c) ==
    /\ tab[c].phase = "adopting"
    /\ IF tab[c].base = Unknown THEN tab' = [tab EXCEPT ![c] = Closed] ELSE GoBack(c)
    /\ UNCHANGED <<server, put, disk, clock>>

Leave(c) ==
    /\ tab[c].phase = "editing"
    /\ tab' = [tab EXCEPT ![c] = Closed]
    /\ UNCHANGED <<server, put, disk, clock>>

-----------------------------------------------------------------------------
(* Editing and saving *)

(* Any edit, written to IndexedDB with the version the tab knows. *)
Edit(c, plan) ==
    /\ tab[c].phase = "editing" /\ plan # tab[c].rows
    /\ Show(c, plan, tab[c].base, TRUE)
    /\ Store(c, plan, tab[c].base, TRUE)
    /\ UNCHANGED <<server, put, clock>>

(* putUpdateAssignmentsAndVerify: the request carries the plan and the     *)
(* version the client knows.                                               *)
Send(c, p, rows, base, dirty, force) ==
    /\ put[p].stage = "unsent"
    /\ put' = [put EXCEPT ![p] = [Unsent EXCEPT !.stage = "sent", !.owner = c, !.rows = rows,
                                                !.base = base, !.force = force]]
    /\ tab' = [tab EXCEPT ![c] = [phase |-> "saving", rows |-> rows, base |-> base,
                                  dirty |-> dirty, offer |-> Unknown, put |-> p]]
    /\ UNCHANGED <<server, disk, clock>>

(* handlePutAssignments: also a defensive save of a plan without edits. *)
Save(c, p) ==
    /\ tab[c].phase = "editing"
    /\ Send(c, p, tab[c].rows, tab[c].base, tab[c].dirty, FALSE)

(* 409, or any other error, or a success whose rows are read back next. *)
Answered(c) ==
    /\ tab[c].phase = "saving"
    /\ \/ put[tab[c].put].stage = "refused" /\ GoTo(c, "conflict")
       \/ put[tab[c].put].stage = "failed"  /\ GoBack(c)
       \/ put[tab[c].put].stage = "done"    /\ GoTo(c, "checking")
    /\ UNCHANGED <<server, put, disk, clock>>

(* The answer is lost: to the client the save failed, and the request goes *)
(* on at the server.                                                       *)
AnswerLost(c) ==
    /\ tab[c].phase = "saving"
    /\ GoBack(c)
    /\ UNCHANGED <<server, put, disk, clock>>

(* Bug: the rows are read back and not compared. *)
VerifiedUnread(rows, sent) == TRUE

(* Every row the server reports is a row of the plan that was sent. *)
Verified(rows, sent) == \A g \in RowsOf(rows) : rows[g] = sent[g]

CheckOk(c) ==
    /\ tab[c].phase = "checking"
    /\ Verified(server.rows, tab[c].rows)
    /\ Show(c, tab[c].rows, put[tab[c].put].start, FALSE)
    /\ Store(c, server.rows, put[tab[c].put].start, FALSE)
    /\ UNCHANGED <<server, put, clock>>

(* A mismatch, or the rows could not be read: the save counts as failed. *)
CheckFails(c) ==
    /\ tab[c].phase = "checking"
    /\ GoBack(c)
    /\ UNCHANGED <<server, put, disk, clock>>

-----------------------------------------------------------------------------
(* Resolving a conflict *)

(* SaveConflictModal reads the server's metadata when it opens. *)
LoadOffer(c) ==
    /\ tab[c].phase = "conflict" /\ tab[c].offer = Unknown
    /\ tab' = [tab EXCEPT ![c].offer = server.stamp]
    /\ UNCHANGED <<server, put, disk, clock>>

(* Bug: the local plan is kept under the server's metadata. *)
KeepLocalAsServer(c) ==
    /\ \/ tab[c].phase = "conflict" /\ GoBack(c)
       \/ tab[c].phase = "clash" /\ Show(c, disk[c].rows, tab[c].offer, FALSE)
    /\ UNCHANGED <<server, put, disk, clock>>

(* "I'll deal with this later", or closing the dialog.  While loading, the *)
(* local record is shown as if it had no edits.                            *)
KeepLocal(c) ==
    /\ \/ tab[c].phase = "conflict" /\ GoBack(c)
       \/ tab[c].phase = "clash" /\ Show(c, disk[c].rows, disk[c].base, FALSE)
    /\ UNCHANGED <<server, put, disk, clock>>

UseLocal(c, p) ==
    /\ tab[c].offer # Unknown
    /\ \/ /\ tab[c].phase = "conflict"
          /\ Send(c, p, tab[c].rows, tab[c].base, tab[c].dirty, TRUE)
       \/ /\ tab[c].phase = "clash"
          /\ Send(c, p, disk[c].rows, disk[c].base, FALSE, TRUE)

UseServer(c) ==
    /\ tab[c].phase \in {"conflict", "clash"} /\ tab[c].offer # Unknown
    /\ GoTo(c, "adopting")
    /\ UNCHANGED <<server, put, disk, clock>>

(* The plan goes to a new document and the tab follows it there. *)
Fork(c) ==
    /\ tab[c].phase \in {"conflict", "clash"} /\ tab[c].offer # Unknown
    /\ tab' = [tab EXCEPT ![c] = Closed]
    /\ UNCHANGED <<server, put, disk, clock>>

-----------------------------------------------------------------------------
(* The PUT endpoint: one transaction per request *)

(* The transaction is over; a committed version stays known by its start. *)
End(p, stage) ==
    put' = [put EXCEPT ![p] = [Unsent EXCEPT !.stage = stage, !.owner = put[p].owner,
                                 !.start = IF stage = "done" THEN put[p].start ELSE Unknown]]

Turn(p) == Overlapping \/ \A q \in Puts : ~Active(q)

(* Bug: any version the client knows of will do. *)
CurrentOnce(p) == put[p].force \/ put[p].base # Unknown

(* The optimistic check. *)
Current(p) == put[p].force \/ server.stamp <= put[p].base

(* It reads updated_at without locking the row; now() is the transaction's *)
(* start for all of its statements.                                        *)
Check(p) ==
    /\ put[p].stage = "sent" /\ Turn(p)
    /\ Current(p)
    /\ clock < MaxClock /\ clock' = clock + 1
    /\ put' = [put EXCEPT ![p].stage = "checked", ![p].start = clock + 1]
    /\ UNCHANGED <<server, tab, disk>>

Refuse(p) ==
    /\ put[p].stage = "sent" /\ Turn(p)
    /\ ~Current(p)
    /\ End(p, "refused")
    /\ UNCHANGED <<server, tab, disk, clock>>

(* DELETE sees the rows committed when the statement starts... *)
Delete(p) ==
    /\ put[p].stage = "checked"
    /\ put' = [put EXCEPT ![p].stage = "deleting", ![p].seen = server.writer]
    /\ UNCHANGED <<server, tab, disk, clock>>

(* Bug: a lock on the whole table, taken while another one holds it too. *)
MayDeleteAlone(p) == \A q \in Puts \ {p} : ~Active(q)

(* ... waits for the transactions that are deleting one of them...         *)
MayDelete(p) == \A q \in Puts \ {p} : Active(q) => \A g \in put[q].gone : put[p].seen[g] = None

(* Bug: the request's own rows are replaced and the others stay. *)
GoneReplaced(p) == {g \in RowsOf(put[p].rows) : put[p].seen[g] # None}

(* ... and deletes those that are still there.                             *)
Gone(p) == {g \in RowsOf(server.rows) : server.writer[g] = put[p].seen[g]}

Deleted(p) ==
    /\ put[p].stage = "deleting" /\ MayDelete(p)
    /\ put' = [put EXCEPT ![p].stage = "deleted", ![p].gone = Gone(p)]
    /\ UNCHANGED <<server, tab, disk, clock>>

(* INSERT waits for the transactions that hold one of its keys. *)
MayInsert(p) ==
    /\ put[p].stage = "deleted"
    /\ \A q \in Puts \ {p} : Active(q) =>
          /\ put[q].gone \cap RowsOf(put[p].rows) = {}
          /\ put[q].stage = "inserted" => RowsOf(put[q].rows) \cap RowsOf(put[p].rows) = {}

(* A row it did not delete: the primary key refuses a second one. *)
Duplicates(p) == (RowsOf(put[p].rows) \cap RowsOf(server.rows)) \ put[p].gone

Insert(p) ==
    /\ MayInsert(p) /\ Duplicates(p) = {}
    /\ put' = [put EXCEPT ![p].stage = "inserted"]
    /\ UNCHANGED <<server, tab, disk, clock>>

InsertFails(p) ==
    /\ MayInsert(p) /\ Duplicates(p) # {}
    /\ End(p, "failed")
    /\ UNCHANGED <<server, tab, disk, clock>>

Commit(p) ==
    /\ put[p].stage = "inserted"
    /\ LET mine(g) == put[p].rows[g] # NoRow
       IN server' = [rows   |-> [g \in Geos |-> IF mine(g) THEN put[p].rows[g]
                                                ELSE IF g \in put[p].gone THEN NoRow
                                                ELSE server.rows[g]],
                     writer |-> [g \in Geos |-> IF mine(g) THEN p
                                                ELSE IF g \in put[p].gone THEN None
                                                ELSE server.writer[g]],
                     stamp  |-> put[p].start]
    /\ End(p, "done")
    /\ UNCHANGED <<tab, disk, clock>>

(* An error, a crash, a statement or a lock timeout: rolled back. *)
Abort(p) ==
    /\ put[p].stage = "sent" \/ Active(p)
    /\ End(p, "failed")
    /\ UNCHANGED <<server, tab, disk, clock>>

-----------------------------------------------------------------------------
Visit(c) == \/ Open(c) \/ OpenOffline(c) \/ OpenLocal(c) \/ OpenFirst(c) \/ OpenClash(c)
            \/ Revert(c) \/ Adopt(c) \/ AdoptFails(c) \/ Leave(c)

Work(c) == \/ \E plan \in Plans : Edit(c, plan)
           \/ \E p \in Puts : Save(c, p)
           \/ Answered(c) \/ AnswerLost(c) \/ CheckOk(c) \/ CheckFails(c)

Resolve(c) == \/ LoadOffer(c) \/ KeepLocal(c) \/ UseServer(c) \/ Fork(c)
              \/ \E p \in Puts : UseLocal(c, p)

Serve(p) == \/ Check(p) \/ Refuse(p) \/ Delete(p) \/ Deleted(p)
            \/ Insert(p) \/ InsertFails(p) \/ Commit(p)

Next ==
    \/ \E c \in Clients : Visit(c) \/ Work(c) \/ Resolve(c)
    \/ \E p \in Puts : Serve(p) \/ Abort(p)

Spec == Init /\ [][Next]_vars

(* The server works on every request it has, and answers are delivered. *)
Fairness ==
    /\ \A p \in Puts : WF_vars(Serve(p))
    /\ \A c \in Clients : WF_vars(Answered(c))

FairSpec == Spec /\ Fairness

-----------------------------------------------------------------------------
(* Every variable keeps its shape. *)
TypeOK ==
    /\ server \in [rows: Plans, writer: [Geos -> Puts \cup {None}], stamp: Stamps]
    /\ put \in [Puts -> [stage: {"unsent", "sent", "refused", "checked", "deleting", "deleted",
                                 "inserted", "done", "failed"},
                         owner: Clients \cup {None}, rows: Plans, base: Stamps \cup {Unknown},
                         force: BOOLEAN, start: Stamps \cup {Unknown},
                         seen: [Geos -> Puts \cup {None}], gone: SUBSET Geos]]
    /\ tab \in [Clients -> [phase: Phases, rows: Plans, base: Stamps \cup {Unknown},
                            dirty: BOOLEAN, offer: Stamps \cup {Unknown},
                            put: Puts \cup {None}]]
    /\ disk \in [Clients -> [rows: Plans, base: Stamps \cup {Unknown}, dirty: BOOLEAN]]
    /\ clock \in Stamps

(* useMapSaveStatus: nothing says that the map has unsaved changes. *)
Dark(c) == tab[c].phase = "editing" /\ ~tab[c].dirty /\ ~disk[c].dirty

(* A client whose save indicator is dark and whose version is the server's *)
(* shows the rows the server has: reading the saved rows back catches      *)
(* every save that was mixed with another one.                             *)
DarkMeansSaved ==
    \A c \in Clients : Dark(c) /\ tab[c].base = server.stamp => tab[c].rows = server.rows

Saved(q) == put[q].stage = "done"

(* "This ensures that concurrent updates don't silently overwrite each     *)
(* other's changes.  They must be explicitly allowed by setting            *)
(* overwrite=True" (update_assignments): a save that is not forced never   *)
(* replaces another client's version that its own client did not know.     *)
NoSilentOverwrite ==
    [][\A p \in Puts : Commit(p) /\ ~put[p].force =>
          \A q \in Puts : Saved(q) /\ put[q].owner # put[p].owner
                             => put[q].start <= put[p].base]_vars

(* "Replaces all existing assignments for a document with the provided     *)
(* assignments" (update_assignments).                                      *)
ReplacesAll == [][\A p \in Puts : Commit(p) => server'.rows = put[p].rows]_vars

(* "Since you last saved, other users (or you, on another device!) have    *)
(* made changes to this map" (SyncConflictModal): a save is only refused   *)
(* when another client saved in between.                                   *)
NoSpuriousConflict ==
    [][\A p \in Puts : Refuse(p) =>
          \E q \in Puts : /\ Saved(q) /\ put[q].owner # put[p].owner
                          /\ put[q].start > put[p].base]_vars

(* A save locks the map, and always unlocks it: no PUT waits forever on    *)
(* the row locks of another one, whatever the timeouts.                    *)
SavesEnd == \A c \in Clients : tab[c].phase = "saving" ~> tab[c].phase # "saving"
=============================================================================
