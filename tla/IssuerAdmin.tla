------------------------------ MODULE IssuerAdmin ------------------------------
(***************************************************************************)
(* Changes of a live event by its issuers (src/worker/issuer-admin.ts).     *)
(* An issuer sends the version of the event he has seen. A request reads    *)
(* the row and metadata.json, stores artwork and an immutable metadata      *)
(* file, and commits the row and an audit entry in one batch if the row     *)
(* still has that version; then it replaces metadata.json. Type, location   *)
(* and collaborators of an event live in metadata.json only.                *)
(*                                                                          *)
(* A version is updated_at, a time in milliseconds. Requests of two issuers *)
(* may draw the same millisecond.                                           *)
(***************************************************************************)
EXTENDS Naturals, FiniteSets

CONSTANTS
    Edits,          \* requests of issuers
    Texts,          \* contents an issuer may give an event
    MaxTime,        \* the last millisecond of a behaviour
    MaxEditFaults   \* requests that end half-way

ASSUME IssuerConstants == MaxTime \in Nat \ {0} /\ MaxEditFaults \in Nat /\ IsFiniteSet(Edits)

VARIABLES
    event,       \* the row of live_events
    revisions,   \* live_event_revisions
    bucket,      \* R2: artwork, immutable metadata files, metadata.json
    edit,        \* the requests with what they read
    time,        \* milliseconds
    replaced,    \* each row that a commit has replaced, with the new one
    crossed,     \* a change was committed before an earlier one was published
    editFaults

issuerVars == <<event, revisions, bucket, edit, time, replaced, crossed, editFaults>>

Statuses == {"draft", "published", "closed"}
Original == "original"
Contents == Texts \cup {Original}
Rows == [version : 0..MaxTime, text : Contents, art : Contents, status : Statuses]

(* A payload is what the identity of a revision is the hash of. Texts also  *)
(* name the pictures: an update may bring its own.                          *)
Payloads == [kind : {"update"}, version : 0..MaxTime, text : Texts, artwork : BOOLEAN]
            \cup [kind : {"transition"}, version : 0..MaxTime, status : {"published", "closed"}]
NoPayload == [kind |-> "transition", version |-> 0, status |-> "closed"]

IssuerTypeOK ==
    /\ event \in Rows
    /\ revisions \subseteq [id : Payloads, before : Rows, after : Rows, by : Edits]
    /\ bucket \in [artwork : SUBSET Contents, files : SUBSET Contents, current : Contents]
    /\ edit \in [Edits -> [phase : {"idle", "load", "store", "stamp", "commit", "publish", "done"},
                           payload : Payloads, before : Rows, after : Rows]]
    /\ time \in 0..MaxTime
    /\ replaced \subseteq Rows \X Rows
    /\ crossed \in BOOLEAN
    /\ editFaults \in 0..MaxEditFaults

IssuerInit ==
    /\ \E status \in Statuses :
         event = [version |-> 0, text |-> Original, art |-> Original, status |-> status]
    /\ revisions = {}
    /\ bucket = [artwork |-> {Original}, files |-> {}, current |-> Original]
    /\ edit = [r \in Edits |-> [phase |-> "idle", payload |-> NoPayload,
                                before |-> event, after |-> event]]
    /\ time = 1
    /\ replaced = {}
    /\ crossed = FALSE
    /\ editFaults = 0

-----------------------------------------------------------------------------
AllowedTransition(from, to) ==
    \/ from = to
    \/ from = "draft" /\ to \in {"published", "closed"}
    \/ from = "published" /\ to = "closed"
    \/ from = "closed" /\ to = "published"

(* A request names the version that its sender saw. It travels to him and   *)
(* back, so that it arrives in a later millisecond.                         *)
Receive(r, payload) ==
    /\ edit[r].phase = "idle"
    /\ payload.version = event.version /\ event.version < time
    /\ edit' = [edit EXCEPT ![r].phase = "load", ![r].payload = payload]
    /\ UNCHANGED <<event, revisions, bucket, time, replaced, crossed, editFaults>>

Refuse(r) == edit' = [edit EXCEPT ![r].phase = "done"]

\* Mistake: the files are not stored before the row refers to them.
AfterLoadNoFiles(p) == "stamp"

AfterLoad(p) == IF p.kind = "update" THEN "store" ELSE "stamp"

(* loadIssuerEvent and the checks before the first write. *)
Load(r) ==
    LET p == edit[r].payload
        refused == \/ event.version # p.version
                   \/ p.kind = "transition" /\ ~AllowedTransition(event.status, p.status)
        after == IF p.kind = "transition" THEN [event EXCEPT !.status = p.status]
                 ELSE [event EXCEPT !.text = p.text,
                                    !.art = IF p.artwork THEN p.text ELSE event.art]
    IN  /\ edit[r].phase = "load"
        /\ IF refused THEN Refuse(r)
           ELSE edit' = [edit EXCEPT ![r].before = event, ![r].after = after,
                    ![r].phase = AfterLoad(p)]
        /\ UNCHANGED <<event, revisions, bucket, time, replaced, crossed, editFaults>>

(* Artwork, if any, and metadata-<revision>.json: new keys of the bucket. *)
StoreFiles(r) ==
    LET p == edit[r].payload IN
    /\ edit[r].phase = "store"
    /\ bucket' = [bucket EXCEPT !.artwork = @ \cup (IF p.artwork THEN {p.text} ELSE {}),
                                !.files = @ \cup {p.text}]
    /\ edit' = [edit EXCEPT ![r].phase = "stamp"]
    /\ UNCHANGED <<event, revisions, time, replaced, crossed, editFaults>>

Now == time

Stamp(r) ==
    /\ edit[r].phase = "stamp"
    /\ edit' = [edit EXCEPT ![r].phase = "commit", ![r].after.version = Now]
    /\ UNCHANGED <<event, revisions, bucket, time, replaced, crossed, editFaults>>

\* Mistake: the update does not ask for the version it has read.
WonAlways(e) == TRUE

Won(e) == event.version = e.payload.version

\* Mistake: the audit entry goes by the version before the change.
AuditedBefore(row, e) == row.version = e.payload.version

Audited(row, e) == row.version = e.after.version

(* The batch: the row is replaced if it has the version the request names;  *)
(* the audit entry is written if the row then has the version the request   *)
(* drew. An entry with the same identity makes the whole batch fail.        *)
Commit(r) ==
    LET e == edit[r]
        won == Won(e)
        row == IF won THEN e.after ELSE event
        audited == Audited(row, e)
        duplicate == audited /\ \E x \in revisions : x.id = e.payload
    IN  /\ e.phase = "commit"
        /\ IF duplicate
           THEN UNCHANGED <<event, revisions, replaced, crossed>>
           ELSE /\ event' = row
                /\ revisions' = IF audited
                       THEN revisions \cup {[id |-> e.payload, before |-> e.before,
                                             after |-> e.after, by |-> r]}
                       ELSE revisions
                /\ replaced' = IF won THEN replaced \cup {<<event, row>>} ELSE replaced
                /\ crossed' = (crossed \/ (won /\ \E q \in Edits : edit[q].phase = "publish"))
        /\ edit' = [edit EXCEPT ![r].phase =
                      IF won /\ ~duplicate /\ e.payload.kind = "update" THEN "publish" ELSE "done"]
        /\ UNCHANGED <<bucket, time, editFaults>>

\* Mistake: metadata.json is written as it was before the change.
PublishedBefore(e) == e.before.text

PublishedText(e) == e.after.text

(* metadata.json is replaced after the commit. *)
PublishMetadata(r) ==
    /\ edit[r].phase = "publish"
    /\ bucket' = [bucket EXCEPT !.current = PublishedText(edit[r])]
    /\ edit' = [edit EXCEPT ![r].phase = "done"]
    /\ UNCHANGED <<event, revisions, time, replaced, crossed, editFaults>>

(* The platform ends the request, or a call to D1 or R2 fails. *)
EditFails(r) ==
    /\ editFaults < MaxEditFaults
    /\ edit[r].phase \notin {"idle", "done"}
    /\ edit' = [edit EXCEPT ![r].phase = "done"]
    /\ editFaults' = editFaults + 1
    /\ UNCHANGED <<event, revisions, bucket, time, replaced, crossed>>

NextMillisecond ==
    /\ time < MaxTime
    /\ time' = time + 1
    /\ UNCHANGED <<event, revisions, bucket, edit, replaced, crossed, editFaults>>

IssuerNext ==
    \/ \E r \in Edits : \/ \E p \in Payloads : Receive(r, p)
                        \/ Load(r) \/ StoreFiles(r) \/ Stamp(r) \/ Commit(r)
                        \/ PublishMetadata(r) \/ EditFails(r)
    \/ NextMillisecond

IssuerSpec == IssuerInit /\ [][IssuerNext]_issuerVars

-----------------------------------------------------------------------------
(* Every change of the row is in the audit log, with the row it replaced:   *)
(* nobody's change is overwritten unseen, though versions are milliseconds. *)
EveryChangeIsAudited ==
    \A c \in replaced : \E x \in revisions : x.before = c[1] /\ x.after = c[2]

(* The picture the row names is in the bucket, and the text that visitors   *)
(* get from metadata.json was committed once.                               *)
PublishedFilesExist ==
    /\ event.art \in bucket.artwork
    /\ bucket.current \in {Original} \cup bucket.files
    /\ bucket.current = Original \/ \E c \in replaced : c[2].text = bucket.current

(* metadata.json describes the event, except while a change is being        *)
(* published, after a request failed, and when two changes were published   *)
(* at the same time: the order of their files is then anybody's guess.      *)
MetadataKeepsUp ==
    /\ editFaults = 0 /\ ~crossed
    /\ \A r \in Edits : edit[r].phase # "publish"
    => bucket.current = event.text

(* The row, its audit log and its files agree, whatever two issuers' requests*)
(* do between each other's steps.                                           *)
ChangesAreKept ==
    IssuerTypeOK /\ EveryChangeIsAudited /\ PublishedFilesExist /\ MetadataKeepsUp
=============================================================================
