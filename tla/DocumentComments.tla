-------------------------- MODULE DocumentComments --------------------------
(***************************************************************************)
(* The comments of documents: the descriptions of districts, edited in     *)
(* browsers and replaced as a whole by every save (mapStore.ts,            *)
(* putUpdateAssignmentsAndVerify.ts, _sync_scoped_comments of              *)
(* comments/main.py), the comments people submit with a form, the          *)
(* moderation that scores both in the background (moderation.py), the      *)
(* reviews of moderators, and what the public reads of it all.             *)
(*                                                                         *)
(* A text is modelled by the score the moderation gives it: 0 is harmless, *)
(* Threshold is the border value itself, 2 is above it.  A comment and its *)
(* row of document_comment, whose key is the comment's, are one record;    *)
(* zone 0 stands for NULL, the zone of a form's comment.  comment_count_   *)
(* limit has its default, one comment per zone.                            *)
(*                                                                         *)
(* Allowed names what the checks may let happen besides:                   *)
(*   "forms"     a form is submitted for a document that is saved later    *)
(*   "uuid"      the client's own id of a new description starts with      *)
(*               digits, which parseInt takes for the id of a row          *)
(*   "reordered" moderation tasks of several requests overtake each other  *)
(*   "edited"    a save puts another offensive text into the row of a      *)
(*               description that a moderator has approved                 *)
(***************************************************************************)
EXTENDS Integers, Sequences, FiniteSets, FiniteSetsExt, Functions, SequencesExt

CONSTANTS Editors,     \* browsers with edit access
          Zones,       \* districts, numbers from 1
          Texts,       \* a subset of 0..2
          Null,        \* SQL's NULL
          Forms,       \* what people fill in: texts of the comment, the name, the tag
          MaxIds,      \* bound: comments ever created
          MaxWrites,   \* bound: saves that commit, copies made and forms submitted
          MaxReviews,  \* bound: flags and reviews
          Allowed      \* see above

Statuses == {"REVIEWED", "APPROVED", "REJECTED"}

ASSUME ConstantsOK ==
    /\ Zones \subseteq Nat \ {0} /\ IsFiniteSet(Zones)
    /\ Null \notin Nat /\ Null \notin Statuses
    /\ Texts \subseteq 0..2
    /\ Forms \subseteq [text : Texts, name : Texts, tag : Texts \cup {Null}]
    /\ {MaxIds, MaxWrites, MaxReviews} \subseteq Nat
    /\ Allowed \subseteq {"forms", "uuid", "reordered", "edited"}

VARIABLES comments,  \* id -> row of comments.comment with its document and tags
          person,    \* the row of the one commenter, or Null
          tags,      \* slug -> row of comments.tag
          nextId,    \* the sequence of comment ids
          version,   \* document -> updated_at, 0 before it is created
          tasks,     \* background tasks that still have to run, oldest first
          form,      \* the submission being worked on, or Null
          views,     \* what each browser holds
          done       \* how often the bounded actions have happened

vars == <<comments, person, tags, nextId, version, tasks, form, views, done>>

Docs == 1..2                        \* a document and the copy made of it
Ids == 1..MaxIds
Threshold == 1                      \* MODERATION_THRESHOLD

Row == [text : Texts, score : Texts \cup {Null}, status : Statuses \cup {Null}]
NewRow(text) == [text |-> text, score |-> Null, status |-> Null]

\* "approved" is history, not a column: the text that a moderator saw when the
\* comment was approved.
CommentRow == [text : Texts, score : Texts \cup {Null}, status : Statuses \cup {Null},
               approved : Texts \cup {Null}, flagged : BOOLEAN, doc : Docs \cup {Null}, zone : Zones \cup {0},
               by : BOOLEAN, tags : SUBSET Texts]
NewComment(text, doc, zone, by) ==
    [text |-> text, score |-> Null, status |-> Null, approved |-> Null, flagged |-> FALSE,
     doc |-> doc, zone |-> zone, by |-> by, tags |-> {}]

\* A description in a browser: id is the number that parseInt makes of its
\* comment_id, 0 when that is not a number.
Entry == [id : 0..MaxIds, text : Texts]
Task == [kind : {"comment", "commenter", "tag"}, key : Nat, text : Texts]
Scoring(kind, key, text) == [kind |-> kind, key |-> key, text |-> text]

OfDocument(d) == {i \in DOMAIN comments : comments[i].doc = d}
Scoped(d) == {i \in OfDocument(d) : comments[i].zone # 0}
With(f, g) == [x \in DOMAIN f \cup DOMAIN g |-> IF x \in DOMAIN f THEN f[x] ELSE g[x]]

(***************************************************************************)
(* What the public reads.                                                  *)
(***************************************************************************)

\* get_document_public, in Python: a viewer gets a placeholder instead.
Moderated(row) ==
    \/ row.status = "REJECTED"
    \/ row.score # Null /\ row.score > Threshold /\ row.status # "APPROVED"

\* moderate_comments_query, in SQL: without a status, "status != 'REJECTED'"
\* is NULL, which is not true, so only reviewed entries pass ...
PassesEntity(row) ==
    /\ row.status \notin {Null, "REJECTED"}
    /\ row.status = "APPROVED" \/ row.score = Null \/ row.score < Threshold

\* ... and a tag without a status is never a bad one.
BadTag(row) ==
    /\ row.status # Null
    /\ \/ row.status = "REJECTED"
       \/ row.status # "APPROVED" /\ row.score # Null /\ row.score >= Threshold

Listed(i) ==
    /\ comments[i].zone = 0
    /\ PassesEntity(comments[i])
    /\ comments[i].by => PassesEntity(person)
    /\ \A t \in comments[i].tags : ~BadTag(tags[t])

Public(i) == Listed(i) \/ (comments[i].zone # 0 /\ ~Moderated(comments[i]))

-----------------------------------------------------------------------------
(***************************************************************************)
(* Browsers: open a document, describe districts, save.                    *)
(***************************************************************************)

Init ==
    /\ comments = <<>>
    /\ person = Null
    /\ tags = <<>>
    /\ nextId = 1
    /\ version = [d \in Docs |-> IF d = 1 THEN 1 ELSE 0]
    /\ tasks = <<>>
    /\ form = Null
    /\ views = [e \in Editors |-> [stage |-> "closed", doc |-> 1, known |-> 0,
                                   list |-> [z \in Zones |-> Null]]]
    /\ done = [writes |-> 0, reviews |-> 0]

\* document_comments as the server sends it and setMapDocument keeps it: the
\* first comment of each zone (deduplicateCommentsByZone).
ServerList(d) ==
    [z \in Zones |->
        LET there == {i \in Scoped(d) : comments[i].zone = z}
        IN IF there = {} THEN Null
           ELSE [id |-> Min(there), text |-> comments[Min(there)].text]]

Open(e, d) ==
    /\ version[d] > 0
    /\ views[e].stage # "sent"
    /\ views' = [views EXCEPT ![e] = [stage |-> "open", doc |-> d, known |-> version[d],
                                      list |-> ServerList(d)]]
    /\ UNCHANGED <<comments, person, tags, nextId, version, tasks, form, done>>

\* What parseInt may make of crypto.randomUUID().
TempIds == IF "uuid" \in Allowed THEN {0} \cup Ids ELSE {0}

\* setZoneDescription
Describe(e, z) ==
    /\ views[e].stage = "open"
    /\ \E text \in Texts, temp \in TempIds :
          views' = [views EXCEPT ![e].list[z] =
                       [id |-> IF @ = Null THEN temp ELSE @.id, text |-> text]]
    /\ UNCHANGED <<comments, person, tags, nextId, version, tasks, form, done>>

\* clearZoneDescription
Clear(e, z) ==
    /\ views[e].stage = "open"
    /\ views[e].list[z] # Null
    /\ views' = [views EXCEPT ![e].list[z] = Null]
    /\ UNCHANGED <<comments, person, tags, nextId, version, tasks, form, done>>

\* The comments that a save may update or delete (the mutant forgets to ask
\* for the document).
ExistingAnywhere(d) == DOMAIN comments
Existing(d) == OfDocument(d)

\* moderate_comment_by_id is scheduled for every comment that was kept (the
\* mutant: only for the new ones).
TasksOfNew(kept) ==
    SetToSeq({Scoring("comment", p[1], p[2]) : p \in {q \in kept : q[1] >= nextId}})
TasksOf(kept) == SetToSeq({Scoring("comment", p[1], p[2]) : p \in kept})

\* _sync_scoped_comments: an entry whose id is one of the document's comments
\* updates the text of that row and nothing else; any other is inserted; the
\* document's comments that no entry kept are deleted.  For two entries of one
\* id the list's order says which text stays.
Inserted(list, d) == {z \in Zones : list[z] # Null /\ list[z].id \notin Existing(d)}
Target(list, d) ==
    [z \in {y \in Zones : list[y] # Null} |->
        IF list[z].id \in Existing(d) THEN list[z].id
        ELSE nextId - 1 + Cardinality({y \in Inserted(list, d) : y <= z})]

SyncScopedComments(list, d) ==
    LET to == Target(list, d)
        kept == Range(to)
        gone == Existing(d) \ kept
    IN /\ nextId' = nextId + Cardinality(Inserted(list, d)) /\ nextId' <= MaxIds + 1
       /\ \A i \in gone : comments[i].tags = {}  \* comment_tag refers to the row
       /\ \E text \in [kept -> Texts] :
             /\ \A i \in kept : \E z \in DOMAIN to : to[z] = i /\ list[z].text = text[i]
             /\ comments' = [i \in (DOMAIN comments \ gone) \cup kept |->
                   IF i \notin kept THEN comments[i]
                   ELSE IF i \in Existing(d) THEN [comments[i] EXCEPT !.text = text[i]]
                   ELSE NewComment(text[i], d, CHOOSE z \in DOMAIN to : to[z] = i, FALSE)]
             /\ tasks' = tasks \o TasksOf({<<i, text[i]>> : i \in kept})

\* The text of an approved row gives way to another offensive one; the row's
\* status stays.
Overwrites(list, d) ==
    \E z \in Zones :
        /\ list[z] # Null /\ list[z].id \in Existing(d)
        /\ comments[list[z].id].status = "APPROVED"
        /\ list[z].text > Threshold /\ list[z].text # comments[list[z].id].approved

\* PUT /api/assignments as far as comments go; the check of last_updated_at
\* and the interleavings of several PUTs are the business of DocumentSave.
Put(e) ==
    LET v == views[e] IN
    /\ v.stage = "open"
    /\ done.writes < MaxWrites
    /\ \E overwrite \in BOOLEAN : overwrite \/ version[v.doc] = v.known
    /\ "edited" \in Allowed \/ ~Overwrites(v.list, v.doc)
    /\ SyncScopedComments(v.list, v.doc)
    /\ version' = [version EXCEPT ![v.doc] = @ + 1]
    /\ views' = [views EXCEPT ![e].stage = "sent", ![e].known = version[v.doc] + 1]
    /\ done' = [done EXCEPT !.writes = @ + 1]
    /\ UNCHANGED <<person, tags, form>>

\* The answer and the document read after it, whose comments replace the
\* list unless it has none.
Answer(e) ==
    /\ views[e].stage = "sent"
    /\ views' = [views EXCEPT ![e].stage = "open",
                              ![e].list = IF Scoped(views[e].doc) = {} THEN @
                                          ELSE ServerList(views[e].doc)]
    /\ UNCHANGED <<comments, person, tags, nextId, version, tasks, form, done>>

\* The answer is lost: the list keeps the ids it was sent with.
Lost(e) ==
    /\ views[e].stage = "sent"
    /\ views' = [views EXCEPT ![e].stage = "open", ![e].known = 0]
    /\ UNCHANGED <<comments, person, tags, nextId, version, tasks, form, done>>

\* create_document with copy_from_doc: the comments are copied with the
\* author, without score, review and tags, and nothing is scheduled (the
\* mutant attaches them to the source).
CopiedInPlace(row) == NewComment(row.text, row.doc, row.zone, row.by)
Copied(row) == NewComment(row.text, 2, row.zone, row.by)
CopyDocument ==
    LET source == OfDocument(1)
        ids == nextId .. nextId + Cardinality(source) - 1
    IN /\ version[2] = 0
       /\ done.writes < MaxWrites
       /\ ids \subseteq Ids
       /\ \E from \in Injection(ids, source) :
             comments' = With(comments, [i \in ids |-> Copied(comments[from[i]])])
       /\ nextId' = nextId + Cardinality(source)
       /\ version' = [version EXCEPT ![2] = 1]
       /\ done' = [done EXCEPT !.writes = @ + 1]
       /\ UNCHANGED <<person, tags, tasks, form, views>>

-----------------------------------------------------------------------------
(***************************************************************************)
(* A form: commenter, comment, tag and link are committed one after the    *)
(* other; the moderation of all of them is scheduled at the end.           *)
(***************************************************************************)

\* create_commenter_db: an upsert that keeps score and review.
SubmitCommenter ==
    /\ form = Null
    /\ done.writes < MaxWrites
    /\ \E f \in Forms,
          d \in {x \in Docs : "forms" \in Allowed /\ version[x] > 0} \cup {Null} :
          /\ form' = [text |-> f.text, name |-> f.name, tag |-> f.tag,
                      stage |-> "comment", id |-> 0, doc |-> d]
          /\ person' = IF person = Null THEN NewRow(f.name)
                       ELSE [person EXCEPT !.text = f.name]
    /\ done' = [done EXCEPT !.writes = @ + 1]
    /\ UNCHANGED <<comments, tags, nextId, version, tasks, views>>

\* create_comment_db
SubmitComment ==
    /\ form # Null /\ form.stage = "comment"
    /\ nextId \in Ids
    /\ comments' = With(comments, [i \in {nextId} |-> NewComment(form.text, form.doc, 0, TRUE)])
    /\ nextId' = nextId + 1
    /\ form' = [form EXCEPT !.stage = IF form.tag = Null THEN "end" ELSE "tag", !.id = nextId]
    /\ UNCHANGED <<person, tags, version, tasks, views, done>>

\* create_tag_db
SubmitTag ==
    /\ form # Null /\ form.stage = "tag"
    /\ tags' = With(tags, [t \in {form.tag} |-> NewRow(t)])
    /\ form' = [form EXCEPT !.stage = "end"]
    /\ UNCHANGED <<comments, person, nextId, version, tasks, views, done>>

\* create_comment_tag_associations, the last commit, and moderate_submission.
SubmitEnds ==
    LET linked == IF form.tag = Null THEN {} ELSE {form.tag} IN
    /\ form # Null /\ form.stage = "end"
    /\ form.id \in DOMAIN comments
    /\ comments' = [comments EXCEPT ![form.id].tags = @ \cup linked]
    /\ tasks' = tasks \o <<Scoring("comment", form.id, form.text),
                           Scoring("commenter", 0, form.name)>>
                      \o SetToSeq({Scoring("tag", t, t) : t \in linked})
    /\ form' = Null
    /\ UNCHANGED <<person, tags, nextId, version, views, done>>

\* A step fails (a tag without letters, a lost connection): what was committed
\* stays, and nothing of it is scored.
SubmitFails ==
    /\ form # Null
    /\ form' = Null
    /\ UNCHANGED <<comments, person, tags, nextId, version, tasks, views, done>>

-----------------------------------------------------------------------------
(***************************************************************************)
(* Moderation.                                                             *)
(***************************************************************************)

\* score_text and update_moderation_score of the oldest task, or of any when
\* the tasks of several requests run side by side.  Updating a row that is
\* gone does nothing.  Scoring never fails here: a failed attempt to store a
\* score would end the tasks of its request.
ScoreFor(task) == task.text
RunTask ==
    \E k \in DOMAIN tasks :
        LET task == tasks[k] IN
        /\ k = 1 \/ "reordered" \in Allowed
        /\ tasks' = RemoveAt(tasks, k)
        /\ comments' = IF task.kind = "comment" /\ task.key \in DOMAIN comments
                       THEN [comments EXCEPT ![task.key].score = ScoreFor(task)] ELSE comments
        /\ person' = IF task.kind = "commenter" /\ person # Null
                     THEN [person EXCEPT !.score = ScoreFor(task)] ELSE person
        /\ tags' = IF task.kind = "tag" THEN [tags EXCEPT ![task.key].score = ScoreFor(task)]
                   ELSE tags
        /\ UNCHANGED <<nextId, version, form, views, done>>

\* The text on the moderator's screen is the one in the row.
Reviewed(row, status) ==
    [row EXCEPT !.status = status, !.flagged = FALSE,
                !.approved = IF status = "APPROVED" THEN row.text ELSE Null]

\* review_comment for the three kinds of entries; a comment's flag is cleared.
Review ==
    /\ done.reviews < MaxReviews
    /\ \E status \in Statuses :
          \/ /\ \E i \in DOMAIN comments :
                   comments' = [comments EXCEPT ![i] = Reviewed(@, status)]
             /\ UNCHANGED <<person, tags>>
          \/ /\ person # Null
             /\ person' = [person EXCEPT !.status = status]
             /\ UNCHANGED <<comments, tags>>
          \/ /\ \E t \in DOMAIN tags : tags' = [tags EXCEPT ![t].status = status]
             /\ UNCHANGED <<comments, person>>
    /\ done' = [done EXCEPT !.reviews = @ + 1]
    /\ UNCHANGED <<nextId, version, tasks, form, views>>

\* flag_comment
Flag ==
    /\ done.reviews < MaxReviews
    /\ \E i \in DOMAIN comments :
          /\ comments[i].status # "REJECTED"
          /\ comments' = [comments EXCEPT ![i].flagged = TRUE]
    /\ done' = [done EXCEPT !.reviews = @ + 1]
    /\ UNCHANGED <<person, tags, nextId, version, tasks, form, views>>

Next ==
    \/ \E e \in Editors :
          \/ \E d \in Docs : Open(e, d)
          \/ \E z \in Zones : Describe(e, z) \/ Clear(e, z)
          \/ Put(e) \/ Answer(e) \/ Lost(e)
    \/ CopyDocument
    \/ SubmitCommenter \/ SubmitComment \/ SubmitTag \/ SubmitEnds \/ SubmitFails
    \/ RunTask \/ Review \/ Flag

\* The server runs the tasks of every request it has answered.
Spec == Init /\ [][Next]_vars /\ WF_vars(RunTask)

-----------------------------------------------------------------------------

\* Rows, tasks and browsers have their shape, no two comments of a document
\* describe one district, and no id is given twice.
TypeOK ==
    /\ DOMAIN comments \subseteq 1..(nextId - 1)
    /\ nextId \in 1..(MaxIds + 1)
    /\ Range(comments) \subseteq CommentRow
    /\ person \in Row \cup {Null}
    /\ DOMAIN tags \subseteq Texts /\ Range(tags) \subseteq Row
    /\ version \in [Docs -> 0..(MaxWrites + 1)]
    /\ Range(tasks) \subseteq Task
    /\ \A e \in Editors : views[e].list \in [Zones -> Entry \cup {Null}]
    /\ \A i, j \in DOMAIN comments :
          comments[i].doc = comments[j].doc /\ comments[i].zone = comments[j].zone
             /\ comments[i].zone # 0 => i = j

\* An offensive text that has been scored, and for which no scoring is under
\* way, is in no public view unless a moderator approved this very text:
\* whatever was edited, saved again, copied or reviewed in between.
PublicSeesClean ==
    \A i \in DOMAIN comments :
        /\ comments[i].text > Threshold
        /\ comments[i].score # Null
        /\ \A k \in DOMAIN tasks : tasks[k].kind # "comment" \/ tasks[k].key # i
        /\ Public(i)
        => comments[i].status = "APPROVED" /\ comments[i].approved = comments[i].text

\* A save leaves on the server exactly the descriptions the browser shows,
\* one for one, and does not touch the comments of any other document.
Descriptions(d) == {<<comments[i].zone, comments[i].text>> : i \in Scoped(d)}
Shown(list) == {<<z, list[z].text>> : z \in {y \in Zones : list[y] # Null}}
SaveExact ==
    [][\A e \in Editors : Put(e) =>
          LET d == views[e].doc IN
          /\ Descriptions(d)' = Shown(views[e].list)
          /\ \A i \in DOMAIN comments :
                comments[i].doc # d => i \in DOMAIN comments' /\ comments'[i] = comments[i]]_vars

\* In the end every score is the score of the text beside it.
ScoresSettle ==
    <>[](\A i \in DOMAIN comments : comments[i].score \in {Null, comments[i].text})

\* A comment submitted with a form stays until somebody removes it on purpose;
\* no part of the program offers that.
FormCommentsStay ==
    [][\A i \in DOMAIN comments : comments[i].zone = 0 => i \in DOMAIN comments']_vars

\* A comment with a tag that was scored offensive is not listed unless a
\* moderator approved the tag.
ListedTagsClean ==
    \A i \in DOMAIN comments : Listed(i) =>
        \A t \in comments[i].tags :
            tags[t].score # Null /\ tags[t].score >= Threshold => tags[t].status = "APPROVED"
=============================================================================
