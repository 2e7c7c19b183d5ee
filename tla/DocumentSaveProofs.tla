------------------------- MODULE DocumentSaveProofs --------------------------
(***************************************************************************)
(* What is proved of DocumentSave for any number of clients, geographies   *)
(* and requests: types in every case; and, when the server works on one    *)
(* PUT at a time, that a save replaces the whole plan, that none silently  *)
(* overwrites another, and that a dark indicator means what it says.       *)
(***************************************************************************)
EXTENDS DocumentSave, TLAPS

TabTypes  == [phase: Phases, rows: Plans, base: Stamps \cup {Unknown}, dirty: BOOLEAN,
              offer: Stamps \cup {Unknown}, put: Puts \cup {None}]
DiskTypes == [rows: Plans, base: Stamps \cup {Unknown}, dirty: BOOLEAN]
PutTypes  == [stage: {"unsent", "sent", "refused", "checked", "deleting", "deleted",
                      "inserted", "done", "failed"},
              owner: Clients \cup {None}, rows: Plans, base: Stamps \cup {Unknown},
              force: BOOLEAN, start: Stamps \cup {Unknown},
              seen: [Geos -> Puts \cup {None}], gone: SUBSET Geos]

Working == {"checked", "deleting", "deleted", "inserted"}

(* A transaction has a start, and a client that waits, waits for a request.*)
Typed ==
    /\ TypeOK
    /\ \A p \in Puts : put[p].stage \in Working => put[p].start \in Stamps
    /\ \A c \in Clients : tab[c].phase \in {"saving", "checking"} => tab[c].put \in Puts

-----------------------------------------------------------------------------
(* Types *)

LEMMA Constants ==
    /\ Empty \in Plans /\ Unsent \in PutTypes /\ Closed \in TabTypes
    /\ 1 \in Stamps
BY SaveAssumption DEF Empty, Plans, Unsent, PutTypes, Closed, TabTypes, Phases, Stamps

LEMMA InitType == Init => Typed
BY Constants DEF Init, Typed, TypeOK, PutTypes, TabTypes, Unsent, Closed, Working

(* A client's step that leaves the requests alone. *)
LEMMA ClientType ==
    ASSUME Typed, NEW c \in Clients, NEW t \in TabTypes, NEW d \in DiskTypes,
           tab' = [tab EXCEPT ![c] = t], disk' = [disk EXCEPT ![c] = d],
           t.phase \in {"saving", "checking"} => t.put \in Puts,
           UNCHANGED <<server, put, clock>>
    PROVE  Typed'
<1>1. tab' \in [Clients -> TabTypes] /\ disk' \in [Clients -> DiskTypes]
  BY DEF Typed, TypeOK, TabTypes, DiskTypes
<1>2. \A e \in Clients : tab'[e] = IF e = c THEN t ELSE tab[e]
  BY DEF Typed, TypeOK
<1> QED BY <1>1, <1>2 DEF Typed, TypeOK, TabTypes, DiskTypes

(* A step of a request that leaves the clients alone. *)
LEMMA RequestType ==
    ASSUME Typed, NEW p \in Puts, NEW q \in PutTypes, put' = [put EXCEPT ![p] = q],
           q.stage \in Working => q.start \in Stamps,
           UNCHANGED <<tab, disk>>,
           server' \in [rows: Plans, writer: [Geos -> Puts \cup {None}], stamp: Stamps],
           clock' \in Stamps
    PROVE  Typed'
<1>1. put' \in [Puts -> PutTypes]
  BY DEF Typed, TypeOK, PutTypes
<1>2. \A r \in Puts : put'[r] = IF r = p THEN q ELSE put[r]
  BY DEF Typed, TypeOK
<1> QED BY <1>1, <1>2 DEF Typed, TypeOK, PutTypes

(* What the three ways to leave a phase do to the tab. *)
LEMMA TabRecords ==
    ASSUME Typed, NEW c \in Clients
    PROVE  /\ tab[c] \in TabTypes /\ disk[c] \in DiskTypes
           /\ disk = [disk EXCEPT ![c] = disk[c]]
           /\ server.stamp \in Stamps /\ server.rows \in Plans
BY DEF Typed, TypeOK, TabTypes, DiskTypes

LEMMA Fields ==
    ASSUME Typed, NEW c \in Clients
    PROVE  /\ tab[c].rows \in Plans /\ disk[c].rows \in Plans
           /\ tab[c].base \in Stamps \cup {Unknown} /\ disk[c].base \in Stamps \cup {Unknown}
           /\ tab[c].dirty \in BOOLEAN /\ disk[c].dirty \in BOOLEAN
BY TabRecords DEF TabTypes, DiskTypes

LEMMA GoToType ==
    ASSUME Typed, NEW c \in Clients, NEW phase \in Phases, GoTo(c, phase),
           phase = "saving" => FALSE,
           phase = "checking" => tab[c].phase = "saving",
           UNCHANGED <<server, put, disk, clock>>
    PROVE  Typed'
<1> DEFINE t == [tab[c] EXCEPT !.phase = phase]
<1>1. t \in TabTypes /\ t.phase = phase /\ t.put = tab[c].put
  BY TabRecords DEF TabTypes
<1>2. tab' = [tab EXCEPT ![c] = t]
  BY DEF GoTo
<1>3. t.phase \in {"saving", "checking"} => t.put \in Puts
  BY <1>1 DEF Typed
<1> HIDE DEF t
<1> QED BY <1>1, <1>2, <1>3, TabRecords, ClientType

LEMMA GoBackType ==
    ASSUME Typed, NEW c \in Clients, GoBack(c), UNCHANGED <<server, put, disk, clock>>
    PROVE  Typed'
<1> DEFINE t == [tab[c] EXCEPT !.phase = "editing", !.offer = Unknown, !.put = None]
<1>1. t \in TabTypes /\ t.phase = "editing"
  BY TabRecords DEF TabTypes, Phases
<1>2. tab' = [tab EXCEPT ![c] = t]
  BY TabRecords DEF GoBack, Typed, TypeOK
<1> HIDE DEF t
<1> QED BY <1>1, <1>2, TabRecords, ClientType

LEMMA ShowType ==
    ASSUME Typed, NEW c \in Clients, NEW rows \in Plans, NEW base \in Stamps \cup {Unknown},
           NEW dirty \in BOOLEAN, Show(c, rows, base, dirty), NEW d \in DiskTypes,
           disk' = [disk EXCEPT ![c] = d], UNCHANGED <<server, put, clock>>
    PROVE  Typed'
<1> DEFINE t == [tab[c] EXCEPT !.phase = "editing", !.rows = rows, !.base = base,
                               !.dirty = dirty, !.offer = Unknown, !.put = None]
<1>1. t \in TabTypes /\ t.phase = "editing"
  BY TabRecords DEF TabTypes, Phases
<1>2. tab' = [tab EXCEPT ![c] = t]
  BY DEF Show
<1> HIDE DEF t
<1> QED BY <1>1, <1>2, ClientType

LEMMA ClosedType ==
    ASSUME Typed, NEW c \in Clients, tab' = [tab EXCEPT ![c] = Closed],
           UNCHANGED <<server, put, disk, clock>>
    PROVE  Typed'
<1>1. Closed \in TabTypes /\ Closed.phase = "away"
  BY Constants DEF Closed
<1> QED BY <1>1, TabRecords, ClientType

(* The offer of the server's version, as it is asked for. *)
LEMMA OfferType ==
    ASSUME Typed, NEW c \in Clients, NEW phase \in Phases \ {"saving", "checking"},
           tab' = [tab EXCEPT ![c] = [tab[c] EXCEPT !.phase = phase, !.offer = server.stamp]],
           UNCHANGED <<server, put, disk, clock>>
    PROVE  Typed'
<1> DEFINE t == [tab[c] EXCEPT !.phase = phase, !.offer = server.stamp]
<1>1. t \in TabTypes /\ t.phase = phase
  BY TabRecords DEF TabTypes
<1> HIDE DEF t
<1>2. tab' = [tab EXCEPT ![c] = t]
  BY DEF t
<1> QED BY <1>1, <1>2, TabRecords, ClientType

LEMMA OfferSteps ==
    ASSUME Typed, NEW c \in Clients
    PROVE  /\ Open(c) => tab' = [tab EXCEPT ![c] = [tab[c] EXCEPT !.phase = "opening",
                                                                  !.offer = server.stamp]]
           /\ Revert(c) => tab' = [tab EXCEPT ![c] = [tab[c] EXCEPT !.phase = "adopting",
                                                                    !.offer = server.stamp]]
           /\ LoadOffer(c) => tab' = [tab EXCEPT ![c] = [tab[c] EXCEPT !.phase = "conflict",
                                                                       !.offer = server.stamp]]
<1>1. tab[c] \in TabTypes /\ tab \in [Clients -> TabTypes]
  BY TabRecords DEF Typed, TypeOK, TabTypes
<1>2. ASSUME NEW phase PROVE [tab EXCEPT ![c].phase = phase, ![c].offer = server.stamp]
                               = [tab EXCEPT ![c] = [tab[c] EXCEPT !.phase = phase,
                                                                   !.offer = server.stamp]]
  BY <1>1
<1>3. tab[c].phase = "conflict" =>
        [tab[c] EXCEPT !.offer = server.stamp]
          = [tab[c] EXCEPT !.phase = "conflict", !.offer = server.stamp]
  BY <1>1 DEF TabTypes
<1>4. [tab EXCEPT ![c].offer = server.stamp]
        = [tab EXCEPT ![c] = [tab[c] EXCEPT !.offer = server.stamp]]
  BY <1>1
<1> QED BY <1>2, <1>3, <1>4 DEF Open, Revert, LoadOffer

(* A client sends a request and waits for it. *)
LEMMA SendType ==
    ASSUME Typed, NEW c \in Clients, NEW p \in Puts,
           NEW t \in TabTypes, t.put = p, tab' = [tab EXCEPT ![c] = t],
           NEW q \in PutTypes, q.stage = "sent", put' = [put EXCEPT ![p] = q],
           UNCHANGED <<server, disk, clock>>
    PROVE  Typed'
<1>1. tab' \in [Clients -> TabTypes] /\ put' \in [Puts -> PutTypes]
  BY DEF Typed, TypeOK, TabTypes, PutTypes
<1>2. /\ \A e \in Clients : tab'[e] = IF e = c THEN t ELSE tab[e]
      /\ \A r \in Puts : put'[r] = IF r = p THEN q ELSE put[r]
  BY DEF Typed, TypeOK
<1> QED BY <1>1, <1>2 DEF Typed, TypeOK, TabTypes, PutTypes, Working

LEMMA SaveType == ASSUME Typed, NEW c \in Clients, NEW p \in Puts, Save(c, p) PROVE Typed'
<1> DEFINE t == [phase |-> "saving", rows |-> tab[c].rows, base |-> tab[c].base,
                 dirty |-> tab[c].dirty, offer |-> Unknown, put |-> p]
           q == [Unsent EXCEPT !.stage = "sent", !.owner = c, !.rows = tab[c].rows,
                               !.base = tab[c].base, !.force = FALSE]
<1>1. t \in TabTypes /\ t.put = p
  BY Fields DEF TabTypes, Phases
<1>2. q \in PutTypes /\ q.stage = "sent"
  BY Constants, Fields DEF PutTypes
<1>3. tab' = [tab EXCEPT ![c] = t] /\ put' = [put EXCEPT ![p] = q]
      /\ UNCHANGED <<server, disk, clock>>
  BY DEF Save, Send
<1> HIDE DEF t, q
<1> QED BY <1>1, <1>2, <1>3, SendType

LEMMA ForceType ==
    ASSUME Typed, NEW c \in Clients, NEW p \in Puts, NEW from \in DiskTypes,
           Send(c, p, from.rows, from.base, from.dirty, TRUE)
    PROVE  Typed'
<1> DEFINE t == [phase |-> "saving", rows |-> from.rows, base |-> from.base,
                 dirty |-> from.dirty, offer |-> Unknown, put |-> p]
           q == [Unsent EXCEPT !.stage = "sent", !.owner = c, !.rows = from.rows,
                               !.base = from.base, !.force = TRUE]
<1>1. t \in TabTypes /\ t.put = p
  BY DEF TabTypes, DiskTypes, Phases
<1>2. q \in PutTypes /\ q.stage = "sent"
  BY Constants DEF PutTypes, DiskTypes
<1>3. tab' = [tab EXCEPT ![c] = t] /\ put' = [put EXCEPT ![p] = q]
      /\ UNCHANGED <<server, disk, clock>>
  BY DEF Send
<1> HIDE DEF t, q
<1> QED BY <1>1, <1>2, <1>3, SendType

LEMMA VisitType == ASSUME Typed, NEW c \in Clients, Visit(c) PROVE Typed'
<1> USE TabRecords
<1>1. CASE Open(c)
  BY <1>1, OfferSteps, OfferType DEF Open, Phases
<1>2. CASE OpenOffline(c) \/ OpenLocal(c)
  <2>1. /\ Show(c, disk[c].rows, disk[c].base, disk[c].dirty)
        /\ UNCHANGED <<server, put, disk, clock>>
    BY <1>2 DEF OpenOffline, OpenLocal
  <2> QED BY <2>1, Fields, ShowType
<1>3. CASE OpenFirst(c) \/ OpenClash(c)
  BY <1>3, GoToType DEF OpenFirst, OpenClash, Phases
<1>4. CASE Revert(c)
  BY <1>4, OfferSteps, OfferType DEF Revert, Phases
<1>5. CASE Adopt(c)
  <2> DEFINE d == [rows |-> server.rows, base |-> tab[c].offer, dirty |-> FALSE]
  <2>1. d \in DiskTypes /\ tab[c].offer \in Stamps \cup {Unknown}
    BY DEF DiskTypes, TabTypes
  <2> QED BY <1>5, <2>1, ShowType DEF Adopt, Store
<1>6. CASE AdoptFails(c)
  BY <1>6, ClosedType, GoBackType DEF AdoptFails
<1>7. CASE Leave(c)
  BY <1>7, ClosedType DEF Leave
<1> QED BY <1>1, <1>2, <1>3, <1>4, <1>5, <1>6, <1>7 DEF Visit

LEMMA WorkType == ASSUME Typed, NEW c \in Clients, Work(c) PROVE Typed'
<1> USE TabRecords
<1>1. ASSUME NEW plan \in Plans, Edit(c, plan) PROVE Typed'
  <2> DEFINE d == [rows |-> plan, base |-> tab[c].base, dirty |-> TRUE]
  <2>1. d \in DiskTypes /\ tab[c].base \in Stamps \cup {Unknown}
    BY DEF DiskTypes, TabTypes
  <2> QED BY <1>1, <2>1, ShowType DEF Edit, Store
<1>2. ASSUME NEW p \in Puts, Save(c, p) PROVE Typed'
  BY <1>2, SaveType
<1>3. CASE Answered(c)
  BY <1>3, GoToType, GoBackType DEF Answered, Phases
<1>4. CASE AnswerLost(c) \/ CheckFails(c)
  BY <1>4, GoBackType DEF AnswerLost, CheckFails
<1>5. CASE CheckOk(c)
  <2> DEFINE start == put[tab[c].put].start
             d     == [rows |-> server.rows, base |-> start, dirty |-> FALSE]
  <2>1. start \in Stamps \cup {Unknown} /\ tab[c].rows \in Plans
    BY <1>5 DEF CheckOk, Typed, TypeOK
  <2>2. d \in DiskTypes
    BY <2>1 DEF DiskTypes
  <2> QED BY <1>5, <2>1, <2>2, ShowType DEF CheckOk, Store
<1> QED BY <1>1, <1>2, <1>3, <1>4, <1>5 DEF Work

LEMMA ResolveType == ASSUME Typed, NEW c \in Clients, Resolve(c) PROVE Typed'
<1> USE TabRecords
<1>1. CASE LoadOffer(c)
  BY <1>1, OfferSteps, OfferType DEF LoadOffer, Phases
<1>2. CASE KeepLocal(c)
  BY <1>2, GoBackType, ShowType DEF KeepLocal, DiskTypes
<1>3. CASE UseServer(c)
  BY <1>3, GoToType DEF UseServer, Phases
<1>4. CASE Fork(c)
  BY <1>4, ClosedType DEF Fork
<1>5. ASSUME NEW p \in Puts, UseLocal(c, p) PROVE Typed'
  <2> DEFINE edited == [rows |-> tab[c].rows, base |-> tab[c].base, dirty |-> tab[c].dirty]
             stored == [rows |-> disk[c].rows, base |-> disk[c].base, dirty |-> FALSE]
  <2>1. edited \in DiskTypes /\ stored \in DiskTypes
    BY Fields DEF DiskTypes
  <2>2. \/ Send(c, p, edited.rows, edited.base, edited.dirty, TRUE)
        \/ Send(c, p, stored.rows, stored.base, stored.dirty, TRUE)
    BY <1>5 DEF UseLocal
  <2> HIDE DEF edited, stored
  <2> QED BY <2>1, <2>2, ForceType
<1> QED BY <1>1, <1>2, <1>3, <1>4, <1>5 DEF Resolve

(* The record of a request that is over. *)
Ended(p, stage) == [Unsent EXCEPT !.stage = stage, !.owner = put[p].owner,
                                  !.start = IF stage = "done" THEN put[p].start ELSE Unknown]

LEMMA EndedType ==
    ASSUME Typed, NEW p \in Puts, NEW stage \in {"refused", "failed", "done"}
    PROVE  /\ Ended(p, stage) \in PutTypes /\ Ended(p, stage).stage = stage
           /\ stage = "done" => Ended(p, stage).start = put[p].start
           /\ put[p] \in PutTypes
BY Constants DEF Ended, Typed, TypeOK, PutTypes

LEMMA EndType ==
    ASSUME Typed, NEW p \in Puts, NEW stage \in {"refused", "failed"}, End(p, stage),
           UNCHANGED <<server, tab, disk, clock>>
    PROVE  Typed'
<1>1. put' = [put EXCEPT ![p] = Ended(p, stage)] /\ Ended(p, stage).stage \notin Working
  BY EndedType DEF End, Ended, Working
<1> QED BY <1>1, EndedType, RequestType DEF Typed, TypeOK

LEMMA CommitRows ==
    ASSUME Typed, NEW p \in Puts, Commit(p)
    PROVE  /\ server' \in [rows: Plans, writer: [Geos -> Puts \cup {None}], stamp: Stamps]
           /\ server'.stamp = put[p].start
           /\ server'.rows = [g \in Geos |-> IF put[p].rows[g] # NoRow THEN put[p].rows[g]
                                             ELSE IF g \in put[p].gone THEN NoRow
                                             ELSE server.rows[g]]
<1> DEFINE rows == [g \in Geos |-> IF put[p].rows[g] # NoRow THEN put[p].rows[g]
                                   ELSE IF g \in put[p].gone THEN NoRow
                                   ELSE server.rows[g]]
           writer == [g \in Geos |-> IF put[p].rows[g] # NoRow THEN p
                                     ELSE IF g \in put[p].gone THEN None
                                     ELSE server.writer[g]]
<1>1. server' = [rows |-> rows, writer |-> writer, stamp |-> put[p].start]
  BY DEF Commit
<1>2. rows \in Plans
  BY DEF Typed, TypeOK, Plans
<1>3. writer \in [Geos -> Puts \cup {None}]
  BY DEF Typed, TypeOK
<1>4. put[p].start \in Stamps
  BY DEF Typed, Commit, Working
<1> QED BY <1>1, <1>2, <1>3, <1>4

LEMMA ServeType == ASSUME Typed, NEW p \in Puts, Serve(p) \/ Abort(p) PROVE Typed'
<1>1. put[p] \in PutTypes
  BY DEF Typed, TypeOK, PutTypes
<1>2. CASE Check(p)
  <2> DEFINE q == [put[p] EXCEPT !.stage = "checked", !.start = clock + 1]
  <2>1. clock + 1 \in Stamps
    BY <1>2, SaveAssumption DEF Check, Typed, TypeOK, Stamps
  <2>2. q \in PutTypes /\ q.start = clock + 1
    BY <1>1, <2>1 DEF PutTypes
  <2>3. put' = [put EXCEPT ![p] = q]
    BY <1>2 DEF Check, Typed, TypeOK
  <2>4. UNCHANGED <<server, tab, disk>> /\ clock' = clock + 1
    BY <1>2 DEF Check
  <2> HIDE DEF q
  <2> QED BY <2>1, <2>2, <2>3, <2>4, RequestType DEF Typed, TypeOK
<1>3. CASE Refuse(p) \/ InsertFails(p) \/ Abort(p)
  BY <1>3, EndType DEF Refuse, InsertFails, Abort
<1>4. CASE Delete(p)
  <2> DEFINE q == [put[p] EXCEPT !.stage = "deleting", !.seen = server.writer]
  <2>1. q \in PutTypes /\ q.start = put[p].start /\ put[p].start \in Stamps
    BY <1>1, <1>4 DEF PutTypes, Delete, Typed, TypeOK, Working
  <2>2. put' = [put EXCEPT ![p] = q] /\ UNCHANGED <<server, tab, disk, clock>>
    BY <1>4 DEF Delete, Typed, TypeOK
  <2> HIDE DEF q
  <2> QED BY <2>1, <2>2, RequestType DEF Typed, TypeOK
<1>5. CASE Deleted(p)
  <2> DEFINE q == [put[p] EXCEPT !.stage = "deleted", !.gone = Gone(p)]
  <2>1. q \in PutTypes /\ q.start = put[p].start /\ put[p].start \in Stamps
    BY <1>1, <1>5 DEF PutTypes, Deleted, Gone, RowsOf, Typed, Working
  <2>2. put' = [put EXCEPT ![p] = q] /\ UNCHANGED <<server, tab, disk, clock>>
    BY <1>5 DEF Deleted, Typed, TypeOK
  <2> HIDE DEF q
  <2> QED BY <2>1, <2>2, RequestType DEF Typed, TypeOK
<1>6. CASE Insert(p)
  <2> DEFINE q == [put[p] EXCEPT !.stage = "inserted"]
  <2>1. q \in PutTypes /\ q.start = put[p].start /\ put[p].start \in Stamps
    BY <1>1, <1>6 DEF PutTypes, Insert, MayInsert, Typed, Working
  <2>2. put' = [put EXCEPT ![p] = q] /\ UNCHANGED <<server, tab, disk, clock>>
    BY <1>6 DEF Insert, Typed, TypeOK
  <2> HIDE DEF q
  <2> QED BY <2>1, <2>2, RequestType DEF Typed, TypeOK
<1>7. CASE Commit(p)
  <2>1. put' = [put EXCEPT ![p] = Ended(p, "done")] /\ UNCHANGED <<tab, disk, clock>>
    BY <1>7 DEF Commit, End, Ended
  <2> QED BY <1>7, <2>1, EndedType, CommitRows, RequestType DEF Typed, TypeOK, Working
<1> QED BY <1>2, <1>3, <1>4, <1>5, <1>6, <1>7 DEF Serve

LEMMA NextType == Typed /\ [Next]_vars => Typed'
<1>1. CASE Typed /\ UNCHANGED vars
  BY <1>1 DEF vars, Typed, TypeOK
<1> QED BY <1>1, VisitType, WorkType, ResolveType, ServeType DEF Next

(* Tabs, records, requests and the server's rows keep their types.         *)
THEOREM TypeCorrect == Spec => []TypeOK
<1>1. Typed => TypeOK
  BY DEF Typed
<1> QED BY <1>1, InitType, NextType, PTL DEF Spec

-----------------------------------------------------------------------------
(* One PUT at a time: what the transaction at work knows of the server.    *)
(* Nothing is committed beside it, so the version it checked is still the  *)
(* server's, the rows it has seen are the rows there are, and it has       *)
(* deleted all of them.                                                    *)
Serialized(p) ==
    /\ Active(p) =>
          /\ server.stamp < put[p].start /\ put[p].start <= clock
          /\ put[p].force \/ server.stamp <= put[p].base
    /\ put[p].stage = "deleting" => put[p].seen = server.writer
    /\ put[p].stage \in {"deleted", "inserted"} => put[p].gone = RowsOf(server.rows)
    /\ put[p].stage = "done" => put[p].start \in Stamps /\ put[p].start <= server.stamp

OneActive == \A p, q \in Puts : Active(p) /\ Active(q) => p = q

Serial ==
    /\ Typed
    /\ server.stamp <= clock
    /\ OneActive
    /\ \A p \in Puts : Serialized(p)

(* What the client sees of its request, and of the version it knows: a     *)
(* plan without unsaved changes that starts from the server's version is   *)
(* the server's plan, and so is the plan of the save that made the version.*)
Synced(t, d) ==
    /\ t.base <= server.stamp /\ t.offer <= server.stamp /\ d.base <= server.stamp
    /\ ~d.dirty /\ d.base = server.stamp => d.rows = server.rows
    /\ ~t.dirty /\ ~d.dirty /\ t.base = server.stamp => t.rows = server.rows
    /\ t.phase \in {"saving", "checking"} =>
          /\ put[t.put].stage # "unsent"
          /\ put[t.put].stage \in {"sent"} \cup Working => put[t.put].rows = t.rows
          /\ put[t.put].stage = "done" /\ put[t.put].start = server.stamp
                => t.rows = server.rows
    /\ t.phase = "checking" => put[t.put].stage = "done"

InSync == Serial /\ \A c \in Clients : Synced(tab[c], disk[c])

-----------------------------------------------------------------------------
(* The server's steps *)

LEMMA InitSerial == Init => Serial
<1> SUFFICES ASSUME Init PROVE Serial
  OBVIOUS
<1>1. \A p \in Puts : put[p].stage = "unsent"
  BY DEF Init, Unsent
<1>2. server.stamp = 1 /\ clock = 1
  BY DEF Init
<1> QED BY <1>1, <1>2, InitType DEF Serial, OneActive, Serialized, Active

(* A step of one request that commits nothing and starts no transaction. *)
LEMMA SerialRequest ==
    ASSUME Serial, Typed', NEW p \in Puts, NEW q \in PutTypes,
           put' = [put EXCEPT ![p] = q], UNCHANGED <<server, clock>>,
           q.stage # "done",
           q.stage \in Working => /\ Active(p) /\ q.start = put[p].start
                                 /\ q.force = put[p].force /\ q.base = put[p].base,
           q.stage = "deleting" => q.seen = server.writer,
           q.stage \in {"deleted", "inserted"} => q.gone = RowsOf(server.rows)
    PROVE  Serial'
<1>1. \A r \in Puts : put'[r] = IF r = p THEN q ELSE put[r]
  BY DEF Serial, Typed, TypeOK
<1>2. \A r \in Puts : Active(r)' => Active(r)
  BY <1>1 DEF Active, Working
<1>3. OneActive'
  BY <1>2 DEF Serial, OneActive
<1>4. ASSUME NEW r \in Puts PROVE Serialized(r)'
  <2>1. CASE r = p
    BY <1>1, <2>1 DEF Serial, Serialized, Active, Working
  <2>2. CASE r # p
    BY <1>1, <2>2 DEF Serial, Serialized, Active
  <2> QED BY <2>1, <2>2
<1> QED BY <1>3, <1>4 DEF Serial

LEMMA SerialClient ==
    ASSUME Serial, Typed', UNCHANGED <<server, put, clock>> PROVE Serial'
BY DEF Serial, OneActive, Serialized, Active

(* A transaction starts when no other one is at work. *)
LEMMA SerialCheck ==
    ASSUME ~Overlapping, Serial, Typed', NEW p \in Puts, Check(p) PROVE Serial'
<1> DEFINE q == [put[p] EXCEPT !.stage = "checked", !.start = clock + 1]
<1>1. \A r \in Puts : put'[r] = IF r = p THEN q ELSE put[r]
  BY DEF Check, Serial, Typed, TypeOK
<1>2. \A r \in Puts : ~Active(r)
  BY DEF Check, Turn
<1>3. q.stage = "checked" /\ q.start = clock + 1 /\ q.force = put[p].force /\ q.base = put[p].base
  BY DEF Serial, Typed, TypeOK
<1>4. clock \in Nat /\ server.stamp \in Nat /\ server' = server /\ clock' = clock + 1
  BY DEF Check, Serial, Typed, TypeOK, Stamps
<1> HIDE DEF q
<1>5. OneActive'
  BY <1>1, <1>2 DEF OneActive, Active
<1>6. server'.stamp <= clock'
  BY <1>4 DEF Serial
<1>7. ASSUME NEW r \in Puts PROVE Serialized(r)'
  <2>1. CASE r = p
    <3>1. put'[r] = q
      BY <1>1, <2>1
    <3>2. q.force \/ server.stamp <= q.base
      BY <1>3 DEF Check, Current
    <3> QED BY <3>1, <3>2, <1>3, <1>4 DEF Serial, Serialized, Active
  <2>2. CASE r # p
    <3>1. put'[r] = put[r]
      BY <1>1, <2>2
    <3> QED BY <3>1, <1>2, <1>4 DEF Serial, Serialized, Active
  <2> QED BY <2>1, <2>2
<1> QED BY <1>5, <1>6, <1>7 DEF Serial

(* One PUT at a time: the plan sent is the plan committed. *)
LEMMA CommitReplaces ==
    ASSUME Serial, NEW p \in Puts, Commit(p)
    PROVE  server'.rows = put[p].rows /\ server'.stamp = put[p].start
<1>1. put[p].gone = RowsOf(server.rows)
  BY DEF Commit, Serial, Serialized
<1>2. put[p].rows \in Plans /\ server.rows \in Plans
  BY DEF Serial, Typed, TypeOK
<1>3. server'.rows = [g \in Geos |-> IF put[p].rows[g] # NoRow THEN put[p].rows[g]
                                     ELSE IF g \in put[p].gone THEN NoRow
                                     ELSE server.rows[g]]
      /\ server'.stamp = put[p].start
  BY CommitRows DEF Serial
<1>4. \A g \in Geos : server'.rows[g] = put[p].rows[g]
  BY <1>1, <1>3 DEF RowsOf
<1> QED BY <1>2, <1>3, <1>4 DEF Plans

LEMMA SerialCommit ==
    ASSUME Serial, Typed', NEW p \in Puts, Commit(p) PROVE Serial'
<1>1. \A r \in Puts : put'[r] = IF r = p THEN Ended(p, "done") ELSE put[r]
  BY DEF Commit, End, Ended, Serial, Typed, TypeOK
<1>2. Ended(p, "done").stage = "done" /\ Ended(p, "done").start = put[p].start
  BY EndedType DEF Serial
<1>3. Active(p) /\ \A r \in Puts \ {p} : ~Active(r)
  BY DEF Commit, Active, Serial, OneActive
<1>4. /\ server'.stamp = put[p].start /\ clock' = clock
      /\ server.stamp < put[p].start /\ put[p].start <= clock /\ put[p].start \in Stamps
  BY <1>3, CommitReplaces DEF Commit, Serial, Serialized, Typed, Active, Working
<1>5. server.stamp \in Nat /\ \A r \in Puts : put[r].start \in Nat
  BY DEF Serial, Typed, TypeOK, Stamps, Unknown
<1>6. \A r \in Puts : ~Active(r)'
  BY <1>1, <1>2, <1>3 DEF Active
<1>7. ASSUME NEW r \in Puts PROVE Serialized(r)'
  <2>1. CASE r = p
    BY <1>1, <1>2, <1>4, <1>5, <2>1 DEF Serialized, Active
  <2>2. CASE r # p
    <3>1. put'[r] = put[r] /\ ~Active(r) /\ ~Active(r)' /\ Serialized(r)
      BY <1>1, <1>3, <1>6, <2>2 DEF Serial
    <3>2. put[r].stage = "done" => put[r].start \in Stamps /\ put[r].start <= server'.stamp
      BY <3>1, <1>4, <1>5 DEF Serialized
    <3> QED BY <3>1, <3>2 DEF Serialized, Active
  <2> QED BY <2>1, <2>2
<1> QED BY <1>4, <1>6, <1>7 DEF Serial, OneActive

(* A request that ends without a commit. *)
LEMMA SerialEnd ==
    ASSUME Serial, Typed', NEW p \in Puts, NEW stage \in {"refused", "failed"}, End(p, stage),
           UNCHANGED <<server, clock>>
    PROVE  Serial'
<1>1. put' = [put EXCEPT ![p] = Ended(p, stage)]
  BY DEF End, Ended
<1>2. Ended(p, stage) \in PutTypes /\ Ended(p, stage).stage = stage
  BY EndedType DEF Serial
<1> QED BY <1>1, <1>2, SerialRequest DEF Working

LEMMA SerialServe ==
    ASSUME ~Overlapping, Serial, Typed', NEW p \in Puts, Serve(p) \/ Abort(p) PROVE Serial'
<1>1. put[p] \in PutTypes
  BY DEF Serial, Typed, TypeOK, PutTypes
<1>2. CASE Check(p)
  BY <1>2, SerialCheck
<1>3. CASE Refuse(p) \/ InsertFails(p) \/ Abort(p)
  BY <1>3, SerialEnd DEF Refuse, InsertFails, Abort
<1>4. CASE Delete(p)
  <2> DEFINE q == [put[p] EXCEPT !.stage = "deleting", !.seen = server.writer]
  <2>1. /\ q \in PutTypes /\ q.stage = "deleting" /\ q.seen = server.writer
        /\ q.start = put[p].start /\ q.force = put[p].force /\ q.base = put[p].base
    BY <1>1 DEF PutTypes, Serial, Typed, TypeOK
  <2>2. put' = [put EXCEPT ![p] = q] /\ UNCHANGED <<server, clock>> /\ Active(p)
    BY <1>4 DEF Delete, Active, Serial, Typed, TypeOK
  <2> HIDE DEF q
  <2> QED BY <2>1, <2>2, SerialRequest
<1>5. CASE Deleted(p)
  <2> DEFINE q == [put[p] EXCEPT !.stage = "deleted", !.gone = Gone(p)]
  <2>1. Gone(p) = RowsOf(server.rows)
    BY <1>5 DEF Deleted, Gone, Serial, Serialized
  <2>2. /\ q \in PutTypes /\ q.stage = "deleted" /\ q.gone = RowsOf(server.rows)
        /\ q.start = put[p].start /\ q.force = put[p].force /\ q.base = put[p].base
    BY <1>1, <2>1 DEF PutTypes, RowsOf
  <2>3. put' = [put EXCEPT ![p] = q] /\ UNCHANGED <<server, clock>> /\ Active(p)
    BY <1>5 DEF Deleted, Active, Serial, Typed, TypeOK
  <2> HIDE DEF q
  <2> QED BY <2>2, <2>3, SerialRequest
<1>6. CASE Insert(p)
  <2> DEFINE q == [put[p] EXCEPT !.stage = "inserted"]
  <2>1. /\ q \in PutTypes /\ q.stage = "inserted" /\ q.gone = put[p].gone
        /\ q.start = put[p].start /\ q.force = put[p].force /\ q.base = put[p].base
    BY <1>1 DEF PutTypes
  <2>2. put[p].gone = RowsOf(server.rows)
    BY <1>6 DEF Insert, MayInsert, Serial, Serialized
  <2>3. put' = [put EXCEPT ![p] = q] /\ UNCHANGED <<server, clock>> /\ Active(p)
    BY <1>6 DEF Insert, MayInsert, Active, Serial, Typed, TypeOK
  <2> HIDE DEF q
  <2> QED BY <2>1, <2>2, <2>3, SerialRequest
<1>7. CASE Commit(p)
  BY <1>7, SerialCommit
<1> QED BY <1>2, <1>3, <1>4, <1>5, <1>6, <1>7 DEF Serve

-----------------------------------------------------------------------------
(* The clients' steps *)

LEMMA InitSync == Init => InSync
<1> SUFFICES ASSUME Init PROVE InSync
  OBVIOUS
<1>1. \A c \in Clients : Synced(tab[c], disk[c])
  BY DEF Init, Synced, Closed, Unknown
<1> QED BY <1>1, InitSerial DEF InSync

LEMMA Numbers ==
    ASSUME Typed
    PROVE  /\ server.stamp \in Nat \ {0} /\ clock \in Nat
           /\ \A p \in Puts : put[p].start \in Nat
           /\ \A c \in Clients : tab[c].base \in Nat /\ tab[c].offer \in Nat /\ disk[c].base \in Nat
BY DEF Typed, TypeOK, Stamps, Unknown

(* A step of a client that leaves the requests alone. *)
LEMMA SyncedClient ==
    ASSUME InSync, Typed', NEW c \in Clients, NEW t \in TabTypes, NEW d \in DiskTypes,
           tab' = [tab EXCEPT ![c] = t], disk' = [disk EXCEPT ![c] = d],
           UNCHANGED <<server, put, clock>>, Synced(t, d)
    PROVE  InSync'
<1>1. Serial'
  BY SerialClient DEF InSync
<1>2. ASSUME NEW e \in Clients PROVE Synced(tab[e], disk[e])'
  <2>1. tab'[e] = (IF e = c THEN t ELSE tab[e]) /\ disk'[e] = (IF e = c THEN d ELSE disk[e])
    BY DEF InSync, Serial, Typed, TypeOK
  <2>2. CASE e = c
    BY <2>1, <2>2 DEF Synced
  <2>3. CASE e # c
    BY <2>1, <2>3 DEF InSync, Synced
  <2> QED BY <2>2, <2>3
<1> QED BY <1>1, <1>2 DEF InSync

(* A client sends a request. *)
LEMMA SyncedSend ==
    ASSUME InSync, Typed', NEW c \in Clients, NEW p \in Puts, put[p].stage = "unsent",
           NEW t \in TabTypes, t.put = p, t.phase = "saving", tab' = [tab EXCEPT ![c] = t],
           NEW q \in PutTypes, q.stage = "sent", q.rows = t.rows, put' = [put EXCEPT ![p] = q],
           UNCHANGED <<server, disk, clock>>,
           t.base <= server.stamp, t.offer = Unknown,
           ~t.dirty /\ ~disk[c].dirty /\ t.base = server.stamp => t.rows = server.rows
    PROVE  InSync'
<1>1. Serial'
  BY SerialRequest DEF InSync, Working
<1>2. \A r \in Puts : put'[r] = IF r = p THEN q ELSE put[r]
  BY DEF InSync, Serial, Typed, TypeOK
<1>3. ASSUME NEW e \in Clients PROVE Synced(tab[e], disk[e])'
  <2>1. tab'[e] = (IF e = c THEN t ELSE tab[e]) /\ disk' = disk /\ server' = server
    BY DEF InSync, Serial, Typed, TypeOK
  <2>2. Synced(tab[e], disk[e])
    BY DEF InSync
  <2>3. CASE e = c
    <3>1. Unknown <= server.stamp
      BY Numbers DEF InSync, Serial, Unknown
    <3> QED BY <1>2, <2>1, <2>2, <2>3, <3>1 DEF Synced
  <2>4. CASE e # c
    <3>1. tab[e].phase \in {"saving", "checking"} => tab[e].put \in Puts
      BY DEF InSync, Serial, Typed
    <3>2. tab[e].phase \in {"saving", "checking"} => put'[tab[e].put] = put[tab[e].put]
      BY <1>2, <2>2, <3>1 DEF Synced
    <3> QED BY <2>1, <2>2, <2>4, <3>2 DEF Synced
  <2> QED BY <2>3, <2>4
<1> QED BY <1>1, <1>3 DEF InSync

(* A step of a request that is not a commit. *)
LEMMA SyncedRequest ==
    ASSUME InSync, Serial', NEW p \in Puts, put[p].stage \in {"sent"} \cup Working,
           NEW q \in PutTypes, put' = [put EXCEPT ![p] = q],
           q.stage \notin {"unsent", "sent", "done"},
           q.stage \in Working => q.rows = put[p].rows,
           UNCHANGED <<server, tab, disk>>
    PROVE  InSync'
<1>1. \A r \in Puts : put'[r] = IF r = p THEN q ELSE put[r]
  BY DEF InSync, Serial, Typed, TypeOK
<1>2. ASSUME NEW e \in Clients PROVE Synced(tab[e], disk[e])'
  <2>1. Synced(tab[e], disk[e])
    BY DEF InSync
  <2>2. tab[e].phase \in {"saving", "checking"} => tab[e].put \in Puts
    BY DEF InSync, Serial, Typed
  <2>3. CASE tab[e].phase \in {"saving", "checking"} /\ tab[e].put = p
    BY <1>1, <2>1, <2>3 DEF Synced, Working
  <2>4. CASE ~(tab[e].phase \in {"saving", "checking"} /\ tab[e].put = p)
    BY <1>1, <2>1, <2>2, <2>4 DEF Synced
  <2> QED BY <2>3, <2>4
<1> QED BY <1>2 DEF InSync

(* A commit makes a version that no client knows yet, and its rows are     *)
(* those of the client that waits for it.                                  *)
LEMMA SyncedCommit ==
    ASSUME InSync, Serial', NEW p \in Puts, Commit(p) PROVE InSync'
<1>1. \A r \in Puts : put'[r] = IF r = p THEN Ended(p, "done") ELSE put[r]
  BY DEF Commit, End, Ended, InSync, Serial, Typed, TypeOK
<1>2. Ended(p, "done").stage = "done" /\ Ended(p, "done").start = put[p].start
  BY EndedType DEF InSync, Serial
<1>3. /\ server'.rows = put[p].rows /\ server'.stamp = put[p].start
      /\ server.stamp < server'.stamp
  BY CommitReplaces DEF Commit, InSync, Serial, Serialized, Active
<1>4. server.stamp \in Nat /\ server'.stamp \in Nat /\ tab' = tab /\ disk' = disk
  BY <1>3, Numbers DEF Commit, InSync, Serial
<1>5. ASSUME NEW e \in Clients PROVE Synced(tab[e], disk[e])'
  <2>1. Synced(tab[e], disk[e])
    BY DEF InSync
  <2>2. tab[e].phase \in {"saving", "checking"} => tab[e].put \in Puts
    BY DEF InSync, Serial, Typed
  <2>3. tab[e].base \in Nat /\ tab[e].offer \in Nat /\ disk[e].base \in Nat
    BY Numbers DEF InSync, Serial
  <2>4. /\ tab[e].base < server'.stamp /\ tab[e].offer < server'.stamp
        /\ disk[e].base < server'.stamp
    BY <1>3, <1>4, <2>1, <2>3 DEF Synced
  <2>5. ASSUME tab[e].phase \in {"saving", "checking"}, tab[e].put = p
        PROVE  put[p].rows = tab[e].rows /\ tab[e].phase = "saving"
    BY <2>1, <2>5 DEF Commit, Synced, Working
  <2>6. ASSUME tab[e].phase \in {"saving", "checking"}, tab[e].put # p,
               put[tab[e].put].stage = "done"
        PROVE  put[tab[e].put].start # server'.stamp
    <3>1. put[tab[e].put].start <= server.stamp /\ put[tab[e].put].start \in Nat
      BY <2>2, <2>6, Numbers DEF InSync, Serial, Serialized
    <3> QED BY <1>3, <1>4, <3>1
  <2>7. CASE tab[e].phase \notin {"saving", "checking"}
    BY <1>4, <2>3, <2>4, <2>7 DEF Synced
  <2>8. CASE tab[e].phase \in {"saving", "checking"} /\ tab[e].put = p
    BY <1>1, <1>2, <1>3, <1>4, <2>3, <2>4, <2>5, <2>8 DEF Synced, Working
  <2>9. CASE tab[e].phase \in {"saving", "checking"} /\ tab[e].put # p
    BY <1>1, <1>4, <2>1, <2>2, <2>3, <2>4, <2>6, <2>9 DEF Synced
  <2> QED BY <2>7, <2>8, <2>9
<1> QED BY <1>5 DEF InSync

(* Away from a request, what the tab knows is all that counts. *)
LEMMA SyncedTab ==
    ASSUME InSync, Typed', NEW c \in Clients, NEW t \in TabTypes, tab' = [tab EXCEPT ![c] = t],
           UNCHANGED <<server, put, disk, clock>>,
           t.phase \notin {"saving", "checking"},
           t.base <= server.stamp, t.offer <= server.stamp,
           ~t.dirty /\ ~disk[c].dirty /\ t.base = server.stamp => t.rows = server.rows
    PROVE  InSync'
<1>1. Synced(tab[c], disk[c]) /\ disk[c] \in DiskTypes /\ disk' = [disk EXCEPT ![c] = disk[c]]
  BY TabRecords DEF InSync, Serial
<1>2. Synced(t, disk[c])
  BY <1>1 DEF Synced
<1> QED BY <1>1, <1>2, SyncedClient

LEMMA GoToSync ==
    ASSUME InSync, Typed', NEW c \in Clients, NEW phase \in Phases \ {"saving", "checking"},
           GoTo(c, phase), UNCHANGED <<server, put, disk, clock>>
    PROVE  InSync'
<1> DEFINE t == [tab[c] EXCEPT !.phase = phase]
<1>1. Synced(tab[c], disk[c]) /\ tab[c] \in TabTypes
  BY TabRecords DEF InSync, Serial
<1>2. /\ t \in TabTypes /\ t.phase = phase /\ t.rows = tab[c].rows /\ t.base = tab[c].base
      /\ t.dirty = tab[c].dirty /\ t.offer = tab[c].offer /\ tab' = [tab EXCEPT ![c] = t]
  BY <1>1 DEF TabTypes, GoTo
<1> HIDE DEF t
<1> QED BY <1>1, <1>2, SyncedTab DEF Synced

LEMMA GoBackSync ==
    ASSUME InSync, Typed', NEW c \in Clients, GoBack(c), UNCHANGED <<server, put, disk, clock>>
    PROVE  InSync'
<1> DEFINE t == [tab[c] EXCEPT !.phase = "editing", !.offer = Unknown, !.put = None]
<1>1. Synced(tab[c], disk[c]) /\ tab[c] \in TabTypes /\ Unknown <= server.stamp
  BY TabRecords, Numbers DEF InSync, Serial, Unknown
<1>2. /\ t \in TabTypes /\ t.phase = "editing" /\ t.rows = tab[c].rows /\ t.base = tab[c].base
      /\ t.dirty = tab[c].dirty /\ t.offer = Unknown
  BY <1>1 DEF TabTypes, Phases
<1>3. tab' = [tab EXCEPT ![c] = t]
  BY TabRecords DEF GoBack, InSync, Serial, Typed, TypeOK
<1> HIDE DEF t
<1> QED BY <1>1, <1>2, <1>3, SyncedTab DEF Synced

LEMMA ClosedSync ==
    ASSUME InSync, Typed', NEW c \in Clients, tab' = [tab EXCEPT ![c] = Closed],
           UNCHANGED <<server, put, disk, clock>>
    PROVE  InSync'
<1>1. Closed \in TabTypes /\ Closed.phase = "away" /\ Closed.base = 0 /\ Closed.offer = 0
  BY Constants DEF Closed, Unknown
<1>2. server.stamp \in Nat \ {0}
  BY Numbers DEF InSync, Serial
<1>3. Closed.base <= server.stamp /\ Closed.offer <= server.stamp /\ Closed.base # server.stamp
  BY <1>1, <1>2
<1> QED BY <1>1, <1>3, SyncedTab

LEMMA OfferSync ==
    ASSUME InSync, Typed', NEW c \in Clients, NEW phase \in Phases \ {"saving", "checking"},
           tab' = [tab EXCEPT ![c] = [tab[c] EXCEPT !.phase = phase, !.offer = server.stamp]],
           UNCHANGED <<server, put, disk, clock>>
    PROVE  InSync'
<1> DEFINE t == [tab[c] EXCEPT !.phase = phase, !.offer = server.stamp]
<1>1. Synced(tab[c], disk[c]) /\ tab[c] \in TabTypes /\ server.stamp \in Stamps
      /\ server.stamp \in Nat
  BY TabRecords, Numbers DEF InSync, Serial
<1>2. /\ t \in TabTypes /\ t.phase = phase /\ t.rows = tab[c].rows /\ t.base = tab[c].base
      /\ t.dirty = tab[c].dirty /\ t.offer = server.stamp
  BY <1>1 DEF TabTypes
<1>3. tab' = [tab EXCEPT ![c] = t]
  OBVIOUS
<1> HIDE DEF t
<1>4. /\ t.base <= server.stamp /\ t.offer <= server.stamp
      /\ ~t.dirty /\ ~disk[c].dirty /\ t.base = server.stamp => t.rows = server.rows
  BY <1>1, <1>2 DEF Synced
<1> QED BY <1>2, <1>3, <1>4, SyncedTab

(* The tab shows a plan: its own, the record's, the server's, the saved one. *)
LEMMA ShowSync ==
    ASSUME InSync, Typed', NEW c \in Clients, NEW rows \in Plans,
           NEW base \in Stamps \cup {Unknown}, NEW dirty \in BOOLEAN, Show(c, rows, base, dirty),
           NEW d \in DiskTypes, disk' = [disk EXCEPT ![c] = d], UNCHANGED <<server, put, clock>>,
           base <= server.stamp, d.base <= server.stamp,
           ~d.dirty /\ d.base = server.stamp => d.rows = server.rows,
           ~dirty /\ ~d.dirty /\ base = server.stamp => rows = server.rows
    PROVE  InSync'
<1> DEFINE t == [tab[c] EXCEPT !.phase = "editing", !.rows = rows, !.base = base,
                               !.dirty = dirty, !.offer = Unknown, !.put = None]
<1>1. /\ t \in TabTypes /\ t.phase = "editing" /\ t.rows = rows /\ t.base = base
      /\ t.dirty = dirty /\ t.offer = Unknown
  BY TabRecords DEF TabTypes, Phases, InSync, Serial
<1>2. tab' = [tab EXCEPT ![c] = t]
  BY DEF Show
<1>3. Unknown <= server.stamp
  BY Numbers DEF InSync, Serial, Unknown
<1> HIDE DEF t
<1>4. Synced(t, d)
  BY <1>1, <1>3 DEF Synced
<1> QED BY <1>1, <1>2, <1>4, SyncedClient

LEMMA VisitSync == ASSUME InSync, Typed', NEW c \in Clients, Visit(c) PROVE InSync'
<1>1. Typed /\ Synced(tab[c], disk[c])
  BY DEF InSync, Serial
<1>2. tab[c] \in TabTypes /\ disk[c] \in DiskTypes /\ server.rows \in Plans
  BY <1>1, TabRecords
<1>3. CASE Open(c)
  BY <1>1, <1>3, OfferSteps, OfferSync DEF Open, Phases
<1>4. CASE OpenOffline(c) \/ OpenLocal(c)
  <2>1. /\ Show(c, disk[c].rows, disk[c].base, disk[c].dirty)
        /\ disk' = [disk EXCEPT ![c] = disk[c]] /\ UNCHANGED <<server, put, clock>>
    BY <1>1, <1>4, TabRecords DEF OpenOffline, OpenLocal
  <2> DEFINE t == [tab[c] EXCEPT !.phase = "editing", !.rows = disk[c].rows,
                                 !.base = disk[c].base, !.dirty = disk[c].dirty,
                                 !.offer = Unknown, !.put = None]
  <2>2. /\ t \in TabTypes /\ t.phase = "editing" /\ t.rows = disk[c].rows
        /\ t.base = disk[c].base /\ t.dirty = disk[c].dirty /\ t.offer = Unknown
    BY <1>1, <1>2, Fields DEF TabTypes, Phases
  <2>3. tab' = [tab EXCEPT ![c] = t] /\ UNCHANGED <<server, put, disk, clock>>
    BY <1>4 DEF OpenOffline, OpenLocal, Show
  <2>4. Unknown <= server.stamp
    BY <1>1, Numbers DEF Unknown
  <2> HIDE DEF t
  <2>5. /\ t.base <= server.stamp /\ t.offer <= server.stamp
        /\ ~t.dirty /\ ~disk[c].dirty /\ t.base = server.stamp => t.rows = server.rows
    BY <1>1, <2>2, <2>4 DEF Synced
  <2> QED BY <2>2, <2>3, <2>5, SyncedTab
<1>5. CASE OpenFirst(c) \/ OpenClash(c)
  BY <1>5, GoToSync DEF OpenFirst, OpenClash, Phases
<1>6. CASE Revert(c)
  BY <1>1, <1>6, OfferSteps, OfferSync DEF Revert, Phases
<1>7. CASE Adopt(c)
  <2> DEFINE d == [rows |-> server.rows, base |-> tab[c].offer, dirty |-> FALSE]
  <2>1. d \in DiskTypes /\ tab[c].offer \in Stamps \cup {Unknown}
    BY <1>2 DEF DiskTypes, TabTypes
  <2> QED BY <1>1, <1>2, <1>7, <2>1, ShowSync DEF Adopt, Store, Synced
<1>8. CASE AdoptFails(c)
  BY <1>8, ClosedSync, GoBackSync DEF AdoptFails
<1>9. CASE Leave(c)
  BY <1>9, ClosedSync DEF Leave
<1> QED BY <1>3, <1>4, <1>5, <1>6, <1>7, <1>8, <1>9 DEF Visit

LEMMA SendSync ==
    ASSUME InSync, Typed', NEW c \in Clients, NEW p \in Puts, NEW from \in DiskTypes,
           NEW force \in BOOLEAN, put[p].stage = "unsent",
           tab' = [tab EXCEPT ![c] = [phase |-> "saving", rows |-> from.rows,
                                      base |-> from.base, dirty |-> from.dirty,
                                      offer |-> Unknown, put |-> p]],
           put' = [put EXCEPT ![p] = [Unsent EXCEPT !.stage = "sent", !.owner = c,
                                                    !.rows = from.rows, !.base = from.base,
                                                    !.force = force]],
           UNCHANGED <<server, disk, clock>>,
           from.base <= server.stamp,
           ~from.dirty /\ ~disk[c].dirty /\ from.base = server.stamp => from.rows = server.rows
    PROVE  InSync'
<1> DEFINE t == [phase |-> "saving", rows |-> from.rows, base |-> from.base,
                 dirty |-> from.dirty, offer |-> Unknown, put |-> p]
           q == [Unsent EXCEPT !.stage = "sent", !.owner = c, !.rows = from.rows,
                               !.base = from.base, !.force = force]
<1>1. /\ t \in TabTypes /\ t.put = p /\ t.phase = "saving" /\ t.offer = Unknown
      /\ t.rows = from.rows /\ t.base = from.base /\ t.dirty = from.dirty
  BY DEF TabTypes, DiskTypes, Phases
<1>2. q \in PutTypes /\ q.stage = "sent" /\ q.rows = from.rows
  BY Constants DEF PutTypes, DiskTypes, Unsent
<1>3. tab' = [tab EXCEPT ![c] = t] /\ put' = [put EXCEPT ![p] = q]
  OBVIOUS
<1> HIDE DEF t, q
<1>4. /\ t.base <= server.stamp
      /\ ~t.dirty /\ ~disk[c].dirty /\ t.base = server.stamp => t.rows = server.rows
  BY <1>1
<1>5. q.rows = t.rows
  BY <1>1, <1>2
<1>6. t \in TabTypes /\ t.put = p /\ t.phase = "saving" /\ t.offer = Unknown
  BY <1>1
<1>7. q \in PutTypes /\ q.stage = "sent"
  BY <1>2
<1> QED BY ONLY InSync, Typed', c \in Clients, p \in Puts, put[p].stage = "unsent",
               UNCHANGED <<server, disk, clock>>, <1>3, <1>4, <1>5, <1>6, <1>7, SyncedSend

LEMMA WorkSync == ASSUME InSync, Typed', NEW c \in Clients, Work(c) PROVE InSync'
<1>1. Typed /\ Synced(tab[c], disk[c])
  BY DEF InSync, Serial
<1>2. tab[c] \in TabTypes /\ disk[c] \in DiskTypes /\ server.rows \in Plans
  BY <1>1, TabRecords
<1>3. ASSUME NEW plan \in Plans, Edit(c, plan) PROVE InSync'
  <2> DEFINE d == [rows |-> plan, base |-> tab[c].base, dirty |-> TRUE]
  <2>1. d \in DiskTypes /\ d.dirty /\ d.base = tab[c].base /\ tab[c].base <= server.stamp
    BY <1>1, <1>2 DEF DiskTypes, TabTypes, Synced
  <2>2. /\ Show(c, plan, tab[c].base, TRUE) /\ disk' = [disk EXCEPT ![c] = d]
        /\ UNCHANGED <<server, put, clock>>
    BY <1>3 DEF Edit, Store
  <2> HIDE DEF d
  <2>3. tab[c].base \in Stamps \cup {Unknown} /\ TRUE \in BOOLEAN
    BY <1>1, Fields
  <2> QED BY <2>1, <2>2, <2>3, ShowSync
<1>4. ASSUME NEW p \in Puts, Save(c, p) PROVE InSync'
  <2> DEFINE from == [rows |-> tab[c].rows, base |-> tab[c].base, dirty |-> tab[c].dirty]
  <2>1. /\ from \in DiskTypes /\ from.rows = tab[c].rows /\ from.base = tab[c].base
        /\ from.dirty = tab[c].dirty
    BY <1>1, Fields DEF DiskTypes
  <2> HIDE DEF from
  <2>2. /\ put[p].stage = "unsent" /\ UNCHANGED <<server, disk, clock>>
        /\ tab' = [tab EXCEPT ![c] = [phase |-> "saving", rows |-> from.rows,
                                      base |-> from.base, dirty |-> from.dirty,
                                      offer |-> Unknown, put |-> p]]
        /\ put' = [put EXCEPT ![p] = [Unsent EXCEPT !.stage = "sent", !.owner = c,
                                                    !.rows = from.rows, !.base = from.base,
                                                    !.force = FALSE]]
    BY <1>4, <2>1 DEF Save, Send
  <2>3. /\ from.base <= server.stamp
        /\ ~from.dirty /\ ~disk[c].dirty /\ from.base = server.stamp => from.rows = server.rows
    BY <1>1, <2>1 DEF Synced
  <2>4. FALSE \in BOOLEAN
    OBVIOUS
  <2> QED BY <2>1, <2>2, <2>3, <2>4, SendSync
<1>5. CASE Answered(c)
  <2>1. CASE put[tab[c].put].stage = "refused" /\ GoTo(c, "conflict")
    BY <1>5, <2>1, GoToSync DEF Answered, Phases
  <2>2. CASE put[tab[c].put].stage = "failed" /\ GoBack(c)
    BY <1>5, <2>2, GoBackSync DEF Answered
  <2>3. CASE put[tab[c].put].stage = "done" /\ GoTo(c, "checking")
    <3> DEFINE t == [tab[c] EXCEPT !.phase = "checking"]
    <3>1. /\ t \in TabTypes /\ t.phase = "checking" /\ t.rows = tab[c].rows
          /\ t.base = tab[c].base /\ t.dirty = tab[c].dirty /\ t.offer = tab[c].offer
          /\ t.put = tab[c].put
      BY <1>2 DEF TabTypes, Phases
    <3>2. tab' = [tab EXCEPT ![c] = t]
      BY <2>3 DEF GoTo
    <3>3. disk' = [disk EXCEPT ![c] = disk[c]] /\ UNCHANGED <<server, put, clock>>
      BY <1>1, <1>5, TabRecords DEF Answered
    <3> HIDE DEF t
    <3>4. tab[c].phase = "saving"
      BY <1>5 DEF Answered
    <3>5. Synced(t, disk[c])
      BY <1>1, <2>3, <3>1, <3>4 DEF Synced
    <3> QED BY <1>2, <3>1, <3>2, <3>3, <3>5, SyncedClient
  <2> QED BY <1>5, <2>1, <2>2, <2>3 DEF Answered
<1>6. CASE AnswerLost(c) \/ CheckFails(c)
  BY <1>6, GoBackSync DEF AnswerLost, CheckFails
<1>7. CASE CheckOk(c)
  <2> DEFINE start == put[tab[c].put].start
             d     == [rows |-> server.rows, base |-> start, dirty |-> FALSE]
  <2>1. tab[c].put \in Puts /\ put[tab[c].put].stage = "done" /\ tab[c].rows \in Plans
    BY <1>1, <1>7, Fields DEF CheckOk, Typed, Synced
  <2>2. start \in Stamps \cup {Unknown} /\ start <= server.stamp
    BY <2>1 DEF InSync, Serial, Serialized
  <2>3. d \in DiskTypes /\ d.base = start /\ d.rows = server.rows
    BY <1>2, <2>2 DEF DiskTypes
  <2>4. start = server.stamp => tab[c].rows = server.rows
    BY <1>1, <1>7, <2>1 DEF CheckOk, Synced
  <2>5. /\ Show(c, tab[c].rows, start, FALSE) /\ disk' = [disk EXCEPT ![c] = d]
        /\ UNCHANGED <<server, put, clock>>
    BY <1>7 DEF CheckOk, Store
  <2> HIDE DEF start, d
  <2> QED BY <2>1, <2>2, <2>3, <2>4, <2>5, ShowSync
<1> QED BY <1>3, <1>4, <1>5, <1>6, <1>7 DEF Work

LEMMA ResolveSync == ASSUME InSync, Typed', NEW c \in Clients, Resolve(c) PROVE InSync'
<1>1. Typed /\ Synced(tab[c], disk[c])
  BY DEF InSync, Serial
<1>2. tab[c] \in TabTypes /\ disk[c] \in DiskTypes
  BY <1>1, TabRecords
<1>3. CASE LoadOffer(c)
  BY <1>1, <1>3, OfferSteps, OfferSync DEF LoadOffer, Phases
<1>4. CASE KeepLocal(c)
  <2>1. CASE GoBack(c)
    BY <1>4, <2>1, GoBackSync DEF KeepLocal
  <2>2. CASE Show(c, disk[c].rows, disk[c].base, FALSE)
    <3> DEFINE t == [tab[c] EXCEPT !.phase = "editing", !.rows = disk[c].rows,
                                   !.base = disk[c].base, !.dirty = FALSE,
                                   !.offer = Unknown, !.put = None]
    <3>1. /\ t \in TabTypes /\ t.phase = "editing" /\ t.rows = disk[c].rows
          /\ t.base = disk[c].base /\ t.offer = Unknown
      BY <1>1, <1>2, Fields DEF TabTypes, Phases
    <3>2. tab' = [tab EXCEPT ![c] = t] /\ UNCHANGED <<server, put, disk, clock>>
      BY <1>4, <2>2 DEF KeepLocal, Show
    <3>3. Unknown <= server.stamp
      BY <1>1, Numbers DEF Unknown
    <3> HIDE DEF t
    <3>4. /\ t.base <= server.stamp /\ t.offer <= server.stamp
          /\ ~disk[c].dirty /\ t.base = server.stamp => t.rows = server.rows
      BY <1>1, <3>1, <3>3 DEF Synced
    <3> QED BY <3>1, <3>2, <3>4, SyncedTab
  <2> QED BY <1>4, <2>1, <2>2 DEF KeepLocal
<1>5. CASE UseServer(c)
  BY <1>5, GoToSync DEF UseServer, Phases
<1>6. CASE Fork(c)
  BY <1>6, ClosedSync DEF Fork
<1>7. ASSUME NEW p \in Puts, UseLocal(c, p) PROVE InSync'
  <2> DEFINE edited == [rows |-> tab[c].rows, base |-> tab[c].base, dirty |-> tab[c].dirty]
             stored == [rows |-> disk[c].rows, base |-> disk[c].base, dirty |-> FALSE]
  <2>1. /\ edited \in DiskTypes /\ edited.rows = tab[c].rows /\ edited.base = tab[c].base
        /\ edited.dirty = tab[c].dirty
    BY <1>1, Fields DEF DiskTypes
  <2>2. /\ stored \in DiskTypes /\ stored.rows = disk[c].rows /\ stored.base = disk[c].base
    BY <1>1, Fields DEF DiskTypes
  <2>3. \/ Send(c, p, edited.rows, edited.base, edited.dirty, TRUE)
        \/ Send(c, p, stored.rows, stored.base, stored.dirty, TRUE)
    BY <1>7 DEF UseLocal
  <2> HIDE DEF edited, stored
  <2>4. /\ edited.base <= server.stamp /\ stored.base <= server.stamp
        /\ ~edited.dirty /\ ~disk[c].dirty /\ edited.base = server.stamp
              => edited.rows = server.rows
        /\ ~stored.dirty /\ ~disk[c].dirty /\ stored.base = server.stamp
              => stored.rows = server.rows
    BY <1>1, <2>1, <2>2 DEF Synced
  <2>5. TRUE \in BOOLEAN
    OBVIOUS
  <2> QED BY <2>1, <2>2, <2>3, <2>4, <2>5, SendSync DEF Send
<1> QED BY <1>3, <1>4, <1>5, <1>6, <1>7 DEF Resolve

LEMMA ServeSync ==
    ASSUME InSync, Serial', NEW p \in Puts, Serve(p) \/ Abort(p) PROVE InSync'
<1>1. put[p] \in PutTypes /\ put \in [Puts -> PutTypes]
  BY DEF InSync, Serial, Typed, TypeOK, PutTypes
<1>2. CASE Check(p)
  <2> DEFINE q == [put[p] EXCEPT !.stage = "checked", !.start = clock + 1]
  <2>1. q \in PutTypes /\ q.stage = "checked" /\ q.rows = put[p].rows
    <3>1. put' \in [Puts -> PutTypes] /\ put'[p] = q
      BY <1>1, <1>2 DEF Check, Serial, Typed, TypeOK, PutTypes
    <3> QED BY <1>1, <3>1 DEF PutTypes
  <2>2. put' = [put EXCEPT ![p] = q] /\ UNCHANGED <<server, tab, disk>>
        /\ put[p].stage = "sent"
    BY <1>1, <1>2 DEF Check
  <2> HIDE DEF q
  <2> QED BY <2>1, <2>2, SyncedRequest
<1>3. CASE Refuse(p) \/ InsertFails(p) \/ Abort(p)
  <2>1. PICK stage \in {"refused", "failed"} : End(p, stage)
    BY <1>3 DEF Refuse, InsertFails, Abort
  <2>2. put' = [put EXCEPT ![p] = Ended(p, stage)]
    BY <2>1 DEF End, Ended
  <2>3. Ended(p, stage) \in PutTypes /\ Ended(p, stage).stage = stage
    BY EndedType DEF InSync, Serial
  <2>4. put[p].stage \in {"sent"} \cup Working /\ UNCHANGED <<server, tab, disk>>
    BY <1>3 DEF Refuse, InsertFails, MayInsert, Abort, Active, Working
  <2> QED BY <2>2, <2>3, <2>4, SyncedRequest DEF Working
<1>4. CASE Delete(p)
  <2> DEFINE q == [put[p] EXCEPT !.stage = "deleting", !.seen = server.writer]
  <2>1. q \in PutTypes /\ q.stage = "deleting" /\ q.rows = put[p].rows
    BY <1>1 DEF PutTypes, InSync, Serial, Typed, TypeOK
  <2>2. put' = [put EXCEPT ![p] = q] /\ UNCHANGED <<server, tab, disk>>
        /\ put[p].stage = "checked"
    BY <1>1, <1>4 DEF Delete
  <2> HIDE DEF q
  <2> QED BY <2>1, <2>2, SyncedRequest DEF Working
<1>5. CASE Deleted(p)
  <2> DEFINE q == [put[p] EXCEPT !.stage = "deleted", !.gone = Gone(p)]
  <2>1. q \in PutTypes /\ q.stage = "deleted" /\ q.rows = put[p].rows
    BY <1>1 DEF PutTypes, Gone, RowsOf
  <2>2. put' = [put EXCEPT ![p] = q] /\ UNCHANGED <<server, tab, disk>>
        /\ put[p].stage = "deleting"
    BY <1>1, <1>5 DEF Deleted
  <2> HIDE DEF q
  <2> QED BY <2>1, <2>2, SyncedRequest DEF Working
<1>6. CASE Insert(p)
  <2> DEFINE q == [put[p] EXCEPT !.stage = "inserted"]
  <2>1. q \in PutTypes /\ q.stage = "inserted" /\ q.rows = put[p].rows
    BY <1>1 DEF PutTypes
  <2>2. put' = [put EXCEPT ![p] = q] /\ UNCHANGED <<server, tab, disk>>
        /\ put[p].stage = "deleted"
    BY <1>1, <1>6 DEF Insert, MayInsert
  <2> HIDE DEF q
  <2> QED BY <2>1, <2>2, SyncedRequest DEF Working
<1>7. CASE Commit(p)
  BY <1>7, SyncedCommit
<1> QED BY <1>2, <1>3, <1>4, <1>5, <1>6, <1>7 DEF Serve

LEMMA NextSync == ASSUME ~Overlapping PROVE InSync /\ [Next]_vars => InSync'
<1> SUFFICES ASSUME InSync, [Next]_vars PROVE InSync'
  OBVIOUS
<1>1. Typed'
  BY NextType DEF InSync, Serial
<1>2. ASSUME NEW c \in Clients, Visit(c) \/ Work(c) \/ Resolve(c) PROVE InSync'
  BY <1>1, <1>2, VisitSync, WorkSync, ResolveSync
<1>3. ASSUME NEW p \in Puts, Serve(p) \/ Abort(p) PROVE InSync'
  <2>1. Serial'
    BY <1>1, <1>3, SerialServe DEF InSync
  <2> QED BY <1>3, <2>1, ServeSync
<1>4. CASE UNCHANGED vars
  <2>1. Serial'
    BY <1>1, <1>4, SerialClient DEF vars, InSync
  <2> QED BY <1>4, <2>1 DEF vars, InSync, Synced
<1> QED BY <1>2, <1>3, <1>4 DEF Next

LEMMA AlwaysSync == ASSUME ~Overlapping PROVE Spec => []InSync
BY InitSync, NextSync, PTL DEF Spec

-----------------------------------------------------------------------------
(* With one PUT at a time, a save replaces the whole plan on the server by *)
(* the plan that was sent (update_assignments).                            *)
THEOREM WholePlan == ASSUME ~Overlapping PROVE Spec => ReplacesAll
<1>1. InSync /\ [Next]_vars => [\A p \in Puts : Commit(p) => server'.rows = put[p].rows]_vars
  BY CommitReplaces DEF InSync
<1> QED BY <1>1, AlwaysSync, PTL DEF Spec, ReplacesAll

(* With one PUT at a time, a save that is not forced never replaces        *)
(* another client's version that its own client did not know: the stamp    *)
(* check of update_assignments is enough.                                  *)
THEOREM NoneOverwritten == ASSUME ~Overlapping PROVE Spec => NoSilentOverwrite
<1> DEFINE Known == \A p \in Puts : Commit(p) /\ ~put[p].force =>
                       \A q \in Puts : Saved(q) /\ put[q].owner # put[p].owner
                                          => put[q].start <= put[p].base
<1>1. ASSUME InSync PROVE Known
  <2> SUFFICES ASSUME NEW p \in Puts, Commit(p), ~put[p].force, NEW q \in Puts, Saved(q)
               PROVE  put[q].start <= put[p].base
    OBVIOUS
  <2>1. server.stamp <= put[p].base
    BY <1>1 DEF Commit, Active, InSync, Serial, Serialized
  <2>2. put[q].start <= server.stamp
    BY <1>1 DEF Saved, InSync, Serial, Serialized
  <2>3. server.stamp \in Nat /\ put[q].start \in Nat /\ put[p].base \in Nat
    BY <1>1 DEF InSync, Serial, Typed, TypeOK, Stamps, Unknown
  <2> QED BY <2>1, <2>2, <2>3
<1>2. InSync => [Known]_vars
  BY <1>1
<1> QED BY <1>2, AlwaysSync, PTL DEF NoSilentOverwrite

(* With one PUT at a time, a dark save indicator on the server's version   *)
(* means that the plan in the tab is the plan on the server: no lost       *)
(* answer, failed save, conflict or reload makes it lie.                   *)
THEOREM DarkIsSaved == ASSUME ~Overlapping PROVE Spec => []DarkMeansSaved
<1>1. InSync => DarkMeansSaved
  BY DEF InSync, Synced, DarkMeansSaved, Dark
<1> QED BY <1>1, AlwaysSync, PTL
=============================================================================
