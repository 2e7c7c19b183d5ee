----------------------------- MODULE LocalStore -----------------------------
(***************************************************************************)
(* The browser's own store of documents (DocumentsDB, an IndexedDB table)  *)
(* and the tab that writes to it: strokes are written half a second after  *)
(* the last one, edits of the metadata read the record, change one field   *)
(* and write it back, and opening another document reads its record while  *)
(* the one before may still wait to be written.                            *)
(*                                                                         *)
(* IndexedDB answers requests in the order in which they were made.  What  *)
(* an async function does after an answer runs before the next answer.     *)
(***************************************************************************)
EXTENDS Integers, Sequences, FiniteSets

CONSTANTS
    DocIds,    \* documents on the server
    Migrated,  \* those that localStorage listed: migrateUserMapsFromLocalStorage
    MaxStamp,  \* bound on the edits of a behaviour
    MaxRequests, \* bound on the requests under way when the user goes on
    None,      \* no document, no pending update, no record
    Allowed    \* which of the Coincidences below happen

(***************************************************************************)
(* Coincidences that nothing prevents.  A run names those it lets happen.  *)
(*   overlap     a write while a read-modify-write of the record is on     *)
(*   burst       a stroke while the document before is being flushed       *)
(*   count       a new number of districts within the debounce of a stroke *)
(*   offline     opening a migrated document while the server is away      *)
(***************************************************************************)
Coincidences == {"overlap", "burst", "count", "offline"}

ASSUME StoreAssumption ==
    /\ Migrated \subseteq DocIds /\ None \notin DocIds
    /\ MaxStamp \in Nat /\ MaxRequests \in Nat \ {0}
    /\ Allowed \subseteq Coincidences

VARIABLES
    disk,      \* the documents table
    requests,  \* requests to IndexedDB, first made first answered
    pending,   \* pendingUpdate
    open,      \* mapDocument.document_id
    plan,      \* what the tab last held of each document
    loading,   \* the document that fetchDocument is reading, and its record
    saving,    \* mapLock: the document being saved
    server,    \* what the server holds of each document
    undone,    \* strokes that the user took back
    clock      \* the edits made so far

vars == <<disk, requests, pending, open, plan, loading, saving, server, undone, clock>>
remote == <<server, undone>>

-----------------------------------------------------------------------------
(* Data.  A field of the metadata is known by the edit that set it, the    *)
(* rows of a plan by the strokes they are made of (0: what the server had).*)

Stamps == 0..MaxStamp

Records == [name: Stamps, colors: Stamps, rest: Stamps, rows: SUBSET Stamps,
            dirty: BOOLEAN, password: Stamps, shouldFetch: BOOLEAN]

Original == [name |-> 0, colors |-> 0, rest |-> 0, rows |-> {0},
             dirty |-> FALSE, password |-> 0, shouldFetch |-> FALSE]

ASSUME NothingAssumption ==
    None \notin Records \cup [id : DocIds, record : Records]

(* A document listed in localStorage gets a record without rows. *)
MigratedRecord == [Original EXCEPT !.rows = {}, !.dirty = TRUE, !.shouldFetch = TRUE]

(* Bug: the record is written without its timestamp. *)
PlainUndated(record) == [name |-> record.name, colors |-> record.colors, rest |-> record.rest,
                         rows |-> record.rows]

(* What updateDocument is given by code that names the fields it writes. *)
Plain(record) == [record EXCEPT !.password = 0, !.shouldFetch = FALSE]

Content(record) == <<record.name, record.colors, record.rest, record.rows>>

(* Edits that wait for flushPendingUpdate, read the record and write it. *)
Flushing == {"name", "colors", "password", "document"}
Edits    == Flushing \cup {"count"}

NoThen == [kind |-> "none", id |-> None, record |-> None, now |-> FALSE]
Then(kind, id, record, now) == [kind |-> kind, id |-> id, record |-> record, now |-> now]

Put(id, record, then) == [op |-> "put", id |-> id, record |-> record, then |-> then]
Get(id, then)         == [op |-> "get", id |-> id, record |-> None, then |-> then]

Idle == [id |-> None, read |-> FALSE, record |-> None]

Init ==
    /\ disk = [d \in DocIds |-> IF d \in Migrated THEN MigratedRecord ELSE None]
    /\ requests = <<>> /\ pending = None /\ open = None
    /\ plan = [d \in DocIds |-> None]
    /\ loading = Idle /\ saving = None
    /\ server = [d \in DocIds |-> Original]
    /\ undone = {} /\ clock = 0

-----------------------------------------------------------------------------
(* Writing *)

(* A read-modify-write, or the flush of another document, is under way. *)
Reading  == \E i \in 1..Len(requests) : requests[i].then.kind \in Edits
Flushed  == \E i \in 1..Len(requests) : requests[i].then.kind = "queue"
Room     == Len(requests) < MaxRequests
Alone    == Reading \/ Flushed => "overlap" \in Allowed

(* queueAssignmentsUpdate once no other document is pending: it takes the  *)
(* place of whatever is pending.  `sent` are the requests made so far.     *)
Replace(id, record, now, sent) ==
    IF now
    THEN pending' = None /\ requests' = Append(sent, Put(id, record, NoThen))
    ELSE pending' = [id |-> id, record |-> record] /\ requests' = sent

(* Bug: the update of the other document is replaced as well. *)
QueueOver(id, record, now) == Replace(id, record, now, requests)

(* queueAssignmentsUpdate. *)
Queue(id, record, now) ==
    IF pending # None /\ pending.id # id
    THEN /\ pending' = None
         /\ requests' = Append(requests, Put(pending.id, pending.record,
                                             Then("queue", id, record, now)))
    ELSE Replace(id, record, now, requests)

(* Bug: the pending update is left to its timer. *)
GetWithPending(id, then) ==
    /\ requests' = Append(requests, Get(id, then))
    /\ UNCHANGED pending

(* await flushPendingUpdate(), and then read the record. *)
FlushThenGet(id, then) ==
    /\ pending' = None
    /\ requests' = Append(requests, IF pending = None THEN Get(id, then)
                                    ELSE Put(pending.id, pending.record, then))

(* flushPendingUpdate, from the timer. *)
TimerFires ==
    /\ pending # None /\ Alone
    /\ pending' = None
    /\ requests' = Append(requests, Put(pending.id, pending.record, NoThen))
    /\ UNCHANGED <<disk, open, plan, loading, saving, remote, clock>>

(* The record that an edit writes, from the record it read. *)
Merged(kind, old, new) ==
    CASE kind = "name"     -> Plain([old EXCEPT !.name = new.name])
      [] kind = "colors"   -> [old EXCEPT !.colors = new.colors, !.dirty = TRUE]
      [] kind = "password" -> [old EXCEPT !.password = new.password]
      [] kind = "document" -> [new EXCEPT !.rows = old.rows, !.password = old.password,
                                          !.shouldFetch = old.shouldFetch]
      [] kind = "count"    -> Plain([new EXCEPT !.rows = old.rows])

-----------------------------------------------------------------------------
(* Answers of IndexedDB *)

Answered == requests # <<>>
Head1    == Head(requests)
Rest     == Tail(requests)

PutDone ==
    /\ Answered /\ Head1.op = "put"
    /\ disk' = [disk EXCEPT ![Head1.id] = Head1.record]
    /\ LET then == Head1.then
       IN  CASE then.kind = "none"  -> requests' = Rest /\ UNCHANGED pending
             [] then.kind = "queue" -> Replace(then.id, then.record, then.now, Rest)
             [] OTHER -> requests' = Append(Rest, Get(then.id, then)) /\ UNCHANGED pending
    /\ UNCHANGED <<open, plan, loading, saving, remote, clock>>

(* An edit of a document that is not stored does nothing. *)
EditRead ==
    /\ Answered /\ Head1.op = "get" /\ Head1.then.kind \in Edits
    /\ LET old == disk[Head1.id]
       IN  requests' = IF old = None THEN Rest
                       ELSE Append(Rest, Put(Head1.id,
                                             Merged(Head1.then.kind, old, Head1.then.record),
                                             NoThen))
    /\ UNCHANGED <<disk, pending, open, plan, loading, saving, remote, clock>>

Deleted ==
    /\ Answered /\ Head1.op = "delete"
    /\ disk' = [disk EXCEPT ![Head1.id] = None]
    /\ requests' = Rest
    /\ UNCHANGED <<pending, open, plan, loading, saving, remote, clock>>

-----------------------------------------------------------------------------
(* Editing the open document *)

CanEdit == open # None /\ loading = Idle /\ saving = None /\ clock < MaxStamp /\ Room
Fresh   == clock + 1

Hold(record) == plan' = [plan EXCEPT ![open] = record]

(* ingestAccumulatedAssignments: updateIdbAssignments, debounced. *)
Stroke ==
    LET held == [plan[open] EXCEPT !.rows = @ \cup {Fresh}, !.dirty = TRUE]
    IN  /\ CanEdit /\ (Flushed => "burst" \in Allowed)
        /\ Hold(held) /\ Queue(open, Plain(held), FALSE)
        /\ clock' = Fresh
        /\ UNCHANGED <<disk, open, loading, saving, remote>>

(* Undo, and every other replacement of the rows: written at once. *)
Undo(s) ==
    LET held == [plan[open] EXCEPT !.rows = @ \ {s}, !.dirty = TRUE]
    IN  /\ CanEdit /\ Alone
        /\ s \in plan[open].rows \ {0}
        /\ Hold(held) /\ Queue(open, Plain(held), TRUE)
        /\ undone' = undone \cup {s} /\ clock' = Fresh
        /\ UNCHANGED <<disk, open, loading, saving, server>>

(* The metadata's edits: the name (updateIdbMetadata, once the server has  *)
(* it), the colors (the dialog is modal until the record is written), the  *)
(* password (once the server has it) and the whole metadata, with the      *)
(* comments (updateIdbDocumentMetadata).                                   *)
EditMetadata(kind) ==
    LET held == CASE kind = "name"     -> [plan[open] EXCEPT !.name = Fresh]
                  [] kind = "colors"   -> [plan[open] EXCEPT !.colors = Fresh]
                  [] kind = "password" -> [plan[open] EXCEPT !.password = Fresh]
                  [] kind = "document" -> [plan[open] EXCEPT !.rest = Fresh, !.dirty = TRUE]
    IN  /\ CanEdit /\ Alone
        /\ kind \in Flushing
        /\ Hold(held)
        /\ FlushThenGet(open, Then(kind, open, held, FALSE))
        /\ server' = IF kind = "name" THEN [server EXCEPT ![open].name = Fresh] ELSE server
        /\ clock' = Fresh
        /\ UNCHANGED <<disk, open, loading, saving, undone>>

(* setNumDistricts, setNumCommunities and the edits of communities read    *)
(* the record and write it with the new metadata, without flushing.        *)
SetCount ==
    LET held == [plan[open] EXCEPT !.rest = Fresh, !.dirty = TRUE]
    IN  /\ CanEdit /\ Alone
        /\ pending # None => "count" \in Allowed
        /\ Hold(held)
        /\ requests' = Append(requests, Get(open, Then("count", open, held, FALSE)))
        /\ clock' = Fresh
        /\ UNCHANGED <<disk, pending, open, loading, saving, remote>>

(* handleDeleteMap, from the list of maps, of a document that is not open. *)
Delete(d) ==
    /\ loading = Idle /\ saving = None /\ Alone /\ Room
    /\ d # open /\ disk[d] # None /\ (pending # None => pending.id # d)
    /\ requests' = Append(requests, [op |-> "delete", id |-> d, record |-> None,
                                     then |-> NoThen])
    /\ plan' = [plan EXCEPT ![d] = None]
    /\ UNCHANGED <<disk, pending, open, loading, saving, remote, clock>>

-----------------------------------------------------------------------------
(* Opening a document: fetchDocument and useDocumentWithSync *)

(* A new route cancels the load before it: its answer changes nothing. *)
Cancelled(request) ==
    IF request.then.kind = "load" THEN [request EXCEPT !.then = NoThen] ELSE request

StartOpen(d) ==
    /\ d # open /\ d # loading.id /\ saving = None /\ Alone /\ Room
    /\ loading' = [Idle EXCEPT !.id = d]
    /\ requests' = Append([i \in DOMAIN requests |-> Cancelled(requests[i])],
                          Get(d, Then("load", d, None, FALSE)))
    /\ UNCHANGED <<disk, pending, open, plan, saving, remote, clock>>

LoadRead ==
    /\ Answered /\ Head1.op = "get" /\ Head1.then.kind = "load"
    /\ loading' = [loading EXCEPT !.read = TRUE, !.record = disk[Head1.id]]
    /\ requests' = Rest
    /\ UNCHANGED <<disk, pending, open, plan, saving, remote, clock>>

Ignored ==
    /\ Answered /\ Head1.op = "get" /\ Head1.then.kind = "none"
    /\ requests' = Rest
    /\ UNCHANGED <<disk, pending, open, plan, loading, saving, remote, clock>>

(* ingestFromDocument: the document is shown and written at once. *)
Show(record) ==
    /\ open' = loading.id
    /\ plan' = [plan EXCEPT ![loading.id] = record]
    /\ Queue(loading.id, Plain(record), TRUE)
    /\ loading' = Idle
    /\ UNCHANGED <<disk, saving, remote, clock>>

(* Bug: an incomplete record is taken for a whole one. *)
OpenIncomplete ==
    LET record == loading.record
    IN  /\ loading.read /\ Alone
        /\ Show(Plain(IF record = None THEN server[loading.id] ELSE record))

(* Bug: edits that were not saved give way to the server's version. *)
OpenRemote == loading.read /\ Alone /\ Show(Plain(server[loading.id]))

(* The server answers: its rows when there is no record, or an incomplete  *)
(* one; else the record's rows, and the metadata of whichever is newer.    *)
OpenOnline ==
    LET record == loading.record  remoteDoc == server[loading.id]
    IN  /\ loading.read /\ Alone
        /\ Show(IF record = None \/ record.shouldFetch
                THEN Plain(remoteDoc)
                ELSE IF record.dirty THEN Plain(record)
                ELSE Plain([remoteDoc EXCEPT !.rows = record.rows]))

(* It does not answer: the record is all there is, whatever it holds. *)
OpenOffline ==
    /\ loading.read /\ loading.record # None /\ Alone
    /\ loading.record.shouldFetch => "offline" \in Allowed
    /\ Show(Plain(loading.record))

OpenFails ==
    /\ loading.read
    /\ loading' = Idle
    /\ UNCHANGED <<disk, requests, pending, open, plan, saving, remote, clock>>

-----------------------------------------------------------------------------
(* Saving, and the end of a tab *)

(* handlePutAssignments flushes and reads the record first. *)
StartSave ==
    /\ open # None /\ loading = Idle /\ saving = None /\ Alone /\ Room
    /\ saving' = open
    /\ FlushThenGet(open, Then("save", open, None, FALSE))
    /\ UNCHANGED <<disk, open, plan, loading, remote, clock>>

(* The PUT and its answer, or its failure. *)
SaveRead(ok) ==
    /\ Answered /\ Head1.op = "get" /\ Head1.then.kind = "save"
    /\ saving' = None
    /\ IF ok /\ disk[Head1.id] # None
       THEN LET saved == Plain([plan[Head1.id] EXCEPT !.dirty = FALSE])
            IN  /\ server' = [server EXCEPT ![Head1.id] = saved]
                /\ plan' = [plan EXCEPT ![Head1.id].dirty = FALSE]
                /\ requests' = Append(Rest, Put(Head1.id, saved, NoThen))
       ELSE requests' = Rest /\ UNCHANGED <<server, plan>>
    /\ UNCHANGED <<disk, pending, open, loading, undone, clock>>

(* The tab closes or crashes.  A close kicks the flush first.  Of the      *)
(* requests that were made the browser carries out the first k.            *)
Writes(made, k) ==
    [d \in DocIds |->
        LET mine == {i \in 1..k : made[i].id = d /\ made[i].op # "get"}
            last == CHOOSE i \in mine : \A j \in mine : j <= i
        IN  IF mine = {} THEN disk[d] ELSE made[last].record]

Exit(kicked) ==
    LET made == IF kicked /\ pending # None
                THEN Append(requests, Put(pending.id, pending.record, NoThen))
                ELSE requests
    IN  /\ open # None
        /\ \E k \in 0..Len(made) : disk' = Writes(made, k)
        /\ requests' = <<>> /\ pending' = None /\ open' = None
        /\ plan' = [d \in DocIds |-> None]
        /\ loading' = Idle /\ saving' = None
        /\ UNCHANGED <<remote, clock>>

Next ==
    \/ TimerFires \/ PutDone \/ EditRead \/ Deleted
    \/ Stroke \/ (\E s \in Stamps : Undo(s))
    \/ (\E kind \in Flushing : EditMetadata(kind)) \/ SetCount
    \/ \E d \in DocIds : Delete(d) \/ StartOpen(d)
    \/ LoadRead \/ Ignored \/ OpenOnline \/ OpenOffline \/ OpenFails
    \/ StartSave
    \/ \E b \in BOOLEAN : SaveRead(b) \/ Exit(b)

(* Timers fire, IndexedDB answers, and what follows an answer runs.        *)
Fairness ==
    /\ WF_vars(TimerFires)
    /\ WF_vars(\/ PutDone \/ EditRead \/ Deleted \/ LoadRead \/ Ignored
               \/ \E b \in BOOLEAN : SaveRead(b))

-----------------------------------------------------------------------------
(* Properties *)

TypeOK ==
    /\ disk \in [DocIds -> Records \cup {None}]
    /\ \A i \in 1..Len(requests) :
           /\ requests[i].op \in {"put", "get", "delete"} /\ requests[i].id \in DocIds
           /\ requests[i].record \in Records \cup {None}
    /\ pending # None => pending.id \in DocIds /\ pending.record \in Records
    /\ open \in DocIds \cup {None} /\ saving \in {open, None}
    /\ plan \in [DocIds -> Records \cup {None}]
    /\ open # None => plan[open] # None
    /\ loading.id \in DocIds \cup {None} /\ loading.record \in Records \cup {None}
    /\ server \in [DocIds -> Records]
    /\ undone \subseteq Stamps /\ clock \in Stamps

Settled == requests = <<>> /\ pending = None

(* Once the timer has fired and IndexedDB has answered, the record of      *)
(* every document the tab has shown is what the tab last held of it: no    *)
(* debounced write, edit of the metadata, save or change of document has   *)
(* put an older field back.                                                *)
StoredWhenSettled ==
    Settled => \A d \in DocIds : plan[d] # None =>
                  disk[d] # None /\ Content(disk[d]) = Content(plan[d])

(* A stroke that is in the record stays there until the user undoes it or  *)
(* deletes the map, whatever is flushed, replaced, reopened or lost in a   *)
(* crash later.                                                            *)
DiskKeepsStrokes ==
    [][\A d \in DocIds : disk[d] # None /\ disk'[d] # None =>
          disk[d].rows \ undone' \subseteq disk'[d].rows]_vars

(* A save never takes rows from the server's plan that the user did not    *)
(* take back: what the tab shows as the plan is all of it.                 *)
SaveKeepsPlan ==
    [][\A d \in DocIds : server[d].rows \ undone' \subseteq server'[d].rows]_vars

(* A stroke reaches the record, unless the user takes it back, deletes the *)
(* map or ends the tab, also when another document is opened meanwhile.    *)
StrokesReachDisk ==
    \A d \in DocIds, s \in Stamps :
        plan[d] # None /\ s \in plan[d].rows
            ~> \/ plan[d] = None \/ s \notin plan[d].rows
               \/ disk[d] # None /\ s \in disk[d].rows

Spec == Init /\ [][Next]_vars /\ Fairness
=============================================================================
