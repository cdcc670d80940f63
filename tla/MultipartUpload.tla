--------------------------- MODULE MultipartUpload ---------------------------
(***************************************************************************)
(* The resumable upload of one object too large for a single request        *)
(* (tools/moments-media/lib/recovery-executor.mjs): parts go through the    *)
(* signed bridge worker to an R2 multipart upload, and a journal on disk    *)
(* lets a later run go on where the last one stopped. Two plan rows whose   *)
(* bytes are equal name the same object, and each has its own journal. The  *)
(* rows are not public: one that has an HLS copy too is done with that.     *)
(***************************************************************************)
EXTENDS Naturals, FiniteSets

CONSTANTS
    Uploaders,       \* plan rows that store the same object
    WithFallback,    \* those of them that have an hls_derivative strategy as well
    PartNumbers,     \* 1..partCount
    UploadIds,       \* R2's names of multipart uploads
    NoUpload,
    MaxUploadFaults  \* lost answers, failed calls, ended runs, expired uploads

ASSUME UploadConstants ==
    /\ WithFallback \subseteq Uploaders
    /\ PartNumbers \subseteq Nat /\ PartNumbers # {} /\ IsFiniteSet(PartNumbers)
    /\ NoUpload \notin UploadIds /\ MaxUploadFaults \in Nat

VARIABLES
    object,       \* the parts the stored object is made of, none when it is absent
    remote,       \* R2's multipart uploads
    log,          \* each row's journal, as applyMultipartEvent reads it
    upper,        \* where each row's upload stands in the running process
    leftOpen,     \* uploads whose creation or whose failed removal nobody knows of
    uploadFaults

uploadVars == <<object, remote, log, upper, leftOpen, uploadFaults>>

Ids == UploadIds \cup {NoUpload}
UploadPhases == {"idle", "head", "create", "parts", "complete", "commit", "orphan",
                 "record", "done", "derived"}
Events == {"none", "created", "part", "completed", "aborted"}

UploadTypeOK ==
    /\ object \subseteq PartNumbers
    /\ remote \in [UploadIds -> [state : {"unused", "open", "gone"}, parts : SUBSET PartNumbers]]
    /\ log \in [Uploaders -> [active : BOOLEAN, id : Ids, parts : SUBSET PartNumbers]]
    /\ upper \in [Uploaders -> [at : UploadPhases, again : BOOLEAN, event : Events,
                                id : Ids, part : PartNumbers]]
    /\ leftOpen \subseteq UploadIds
    /\ uploadFaults \in 0..MaxUploadFaults

NoLog == [active |-> FALSE, id |-> NoUpload, parts |-> {}]
FirstPart == CHOOSE p \in PartNumbers : \A q \in PartNumbers : p <= q
Resting == [at |-> "idle", again |-> FALSE, event |-> "none", id |-> NoUpload,
            part |-> FirstPart]
Derived == [Resting EXCEPT !.at = "derived"]

UploadInit ==
    /\ object = {}
    /\ remote = [i \in UploadIds |-> [state |-> "unused", parts |-> {}]]
    /\ log = [u \in Uploaders |-> NoLog]
    /\ upper = [u \in Uploaders |-> Resting]
    /\ leftOpen = {} /\ uploadFaults = 0

-----------------------------------------------------------------------------
At(u, phase) == upper[u].at = phase
Go(u, phase) == upper' = [upper EXCEPT ![u].at = phase]
ToRecord(u, event, id, part) ==
    upper' = [upper EXCEPT ![u].at = "record", ![u].event = event,
                           ![u].id = id, ![u].part = part]
IsOpen(id) == id \in UploadIds /\ remote[id].state = "open"
CloseUpload(id) == remote' = [remote EXCEPT ![id].state = "gone"]
UploadFault == uploadFaults < MaxUploadFaults /\ uploadFaults' = uploadFaults + 1

(* A run of the tool reaches the row. *)
Begin(u) ==
    /\ At(u, "idle")
    /\ upper' = [upper EXCEPT ![u] = [Resting EXCEPT !.at = "head"]]
    /\ UNCHANGED <<object, remote, log, leftOpen, uploadFaults>>

\* Mistake: an upload that the journal still holds is forgotten.
AfterHeadForgets(u) ==
    IF object # {} THEN "done" ELSE IF log[u].active THEN "parts" ELSE "create"

(* The object is looked up first; one that is there makes the upload this    *)
(* row's journal still holds an orphan.                                      *)
AfterHead(u) ==
    CASE object # {} /\ log[u].active -> "orphan"
      [] object # {} /\ ~log[u].active -> "done"
      [] object = {} /\ log[u].active -> "parts"
      [] OTHER -> "create"

LookUp(u) ==
    /\ At(u, "head")
    /\ Go(u, AfterHead(u))
    /\ UNCHANGED <<object, remote, log, leftOpen, uploadFaults>>

(* abortMultipartUpload answers the same when the upload is gone already. *)
DropOrphan(u) ==
    /\ At(u, "orphan")
    /\ CloseUpload(log[u].id)
    /\ ToRecord(u, "completed", log[u].id, FirstPart)
    /\ UNCHANGED <<object, log, leftOpen, uploadFaults>>

(* R2 gives every upload a name of its own; which one is of no account. *)
Unused == {id \in UploadIds : remote[id].state = "unused"}
Opened(id) == remote' = [remote EXCEPT ![id].state = "open"]

(* The bridge looks the object up again before it opens an upload. *)
Create(u) ==
    /\ At(u, "create")
    /\ \/ /\ object # {} /\ Go(u, "done") /\ UNCHANGED remote
       \/ /\ object = {} /\ Unused # {}
          /\ LET id == CHOOSE i \in Unused : TRUE
             IN  Opened(id) /\ ToRecord(u, "created", id, FirstPart)
    /\ UNCHANGED <<object, log, leftOpen, uploadFaults>>

(* The answer to a create is lost: the client's next attempt opens another. *)
CreateUnheard(u) ==
    /\ At(u, "create") /\ object = {} /\ Unused # {} /\ UploadFault
    /\ LET id == CHOOSE i \in Unused : TRUE
       IN  Opened(id) /\ leftOpen' = leftOpen \cup {id}
    /\ UNCHANGED <<object, log, upper>>

\* Mistake: a row that was not stored is given up for good.
GivenUp(u) == {Derived}

(* What comes of a row whose strategy failed: the same run tries the next    *)
(* one, and an HLS copy that it stores is terminal, so that no later run     *)
(* comes back to the upload. Without it the row waits for the next run.      *)
AfterFailure(u) == {Resting} \cup (IF u \in WithFallback THEN {Derived} ELSE {})

(* multipart_upload_not_found: forget the upload and start over, once. *)
StartOver(u) ==
    IF upper[u].again
    THEN \E row \in AfterFailure(u) : upper' = [upper EXCEPT ![u] = row]
    ELSE ToRecord(u, "aborted", log[u].id, FirstPart)

Missing(u) == PartNumbers \ log[u].parts

UploadPart(u) ==
    /\ At(u, "parts") /\ Missing(u) # {}
    /\ LET p == CHOOSE p \in Missing(u) : \A q \in Missing(u) : p <= q IN
       IF IsOpen(log[u].id)
       THEN /\ remote' = [remote EXCEPT ![log[u].id].parts = @ \cup {p}]
            /\ ToRecord(u, "part", log[u].id, p)
       ELSE StartOver(u) /\ UNCHANGED remote
    /\ UNCHANGED <<object, log, leftOpen, uploadFaults>>

AllParts(u) ==
    /\ At(u, "parts") /\ Missing(u) = {}
    /\ Go(u, "complete")
    /\ UNCHANGED <<object, remote, log, leftOpen, uploadFaults>>

(* The bridge looks the object up before it completes an upload. When it is  *)
(* there the upload is aborted, and a failure of that is not reported.       *)
CompleteLooks(u) ==
    /\ At(u, "complete")
    /\ \/ /\ object = {} /\ Go(u, "commit") /\ UNCHANGED <<remote, leftOpen, uploadFaults>>
       \/ /\ object # {} /\ CloseUpload(log[u].id)
          /\ ToRecord(u, "completed", log[u].id, FirstPart)
          /\ UNCHANGED <<leftOpen, uploadFaults>>
       \/ /\ object # {} /\ IsOpen(log[u].id) /\ UploadFault
          /\ leftOpen' = leftOpen \cup {log[u].id}
          /\ ToRecord(u, "completed", log[u].id, FirstPart)
          /\ UNCHANGED remote
    /\ UNCHANGED <<object, log>>

(* R2 puts the named parts together; it knows only the parts it was sent. *)
Committed(u) ==
    /\ log[u].parts \subseteq remote[log[u].id].parts
    /\ object' = log[u].parts
    /\ CloseUpload(log[u].id)

CompleteCommits(u) ==
    /\ At(u, "commit")
    /\ IF IsOpen(log[u].id)
       THEN Committed(u) /\ ToRecord(u, "completed", log[u].id, FirstPart)
       ELSE StartOver(u) /\ UNCHANGED <<object, remote>>
    /\ UNCHANGED <<log, leftOpen, uploadFaults>>

(* The answer to a complete is lost; the client completes once more. *)
CompleteUnheard(u) ==
    /\ At(u, "commit") /\ IsOpen(log[u].id) /\ UploadFault
    /\ Committed(u) /\ Go(u, "complete")
    /\ UNCHANGED <<log, leftOpen>>

\* Mistake: an event changes the journal whichever upload it is of.
AppliedOver(l, e) ==
    CASE e.event = "created" -> [active |-> TRUE, id |-> e.id, parts |-> l.parts]
      [] e.event = "part" -> [l EXCEPT !.parts = @ \cup {e.part}]
      [] OTHER -> [l EXCEPT !.active = FALSE]

\* Mistake: an aborted upload stays in the journal.
AppliedKeeping(l, e) ==
    CASE e.event = "created" -> [active |-> TRUE, id |-> e.id, parts |-> {}]
      [] e.event = "part" /\ l.active /\ l.id = e.id -> [l EXCEPT !.parts = @ \cup {e.part}]
      [] e.event = "completed" /\ l.id = e.id -> [l EXCEPT !.active = FALSE]
      [] OTHER -> l

(* applyMultipartEvent. *)
Applied(l, e) ==
    CASE e.event = "created" -> [active |-> TRUE, id |-> e.id, parts |-> {}]
      [] e.event = "part" /\ l.active /\ l.id = e.id -> [l EXCEPT !.parts = @ \cup {e.part}]
      [] e.event \in {"completed", "aborted"} /\ l.id = e.id -> [l EXCEPT !.active = FALSE]
      [] OTHER -> l

AfterRecord(u) ==
    CASE upper[u].event \in {"created", "part"} -> "parts"
      [] upper[u].event = "completed" -> "done"
      [] OTHER -> "head"

(* The journal is appended to after the call has answered. *)
Record(u) ==
    /\ At(u, "record")
    /\ log' = [log EXCEPT ![u] = Applied(@, upper[u])]
    /\ upper' = [upper EXCEPT ![u].at = AfterRecord(u), ![u].event = "none",
                              ![u].again = @ \/ upper[u].event = "aborted"]
    /\ UNCHANGED <<object, remote, leftOpen, uploadFaults>>

(* A call that fails (the download of the source too), a disk error or the   *)
(* end of the process. An answer that was not recorded is gone.              *)
Stop(u) ==
    /\ upper[u].at \notin {"done", "derived"} /\ UploadFault
    /\ \E row \in AfterFailure(u) : upper' = [upper EXCEPT ![u] = row]
    /\ leftOpen' = IF upper[u].event = "created" THEN leftOpen \cup {upper[u].id} ELSE leftOpen
    /\ UNCHANGED <<object, remote, log>>

(* R2 drops multipart uploads that stay open for too long. *)
Expire(id) ==
    /\ IsOpen(id) /\ UploadFault
    /\ CloseUpload(id)
    /\ UNCHANGED <<object, log, upper, leftOpen>>

UploadStep(u) ==
    Begin(u) \/ LookUp(u) \/ DropOrphan(u) \/ Create(u) \/ UploadPart(u) \/ AllParts(u)
    \/ CompleteLooks(u) \/ CompleteCommits(u) \/ Record(u)

UploadNext ==
    \/ \E u \in Uploaders : UploadStep(u) \/ CreateUnheard(u) \/ CompleteUnheard(u) \/ Stop(u)
    \/ \E id \in UploadIds : Expire(id)

(* Fairness is stated where this module is composed. *)
UploadSpec == UploadInit /\ [][UploadNext]_uploadVars

-----------------------------------------------------------------------------
(* Going on from the journal is sound: the upload it names is the one its    *)
(* parts were sent to, whatever was lost, restarted or opened anew since.    *)
RecordedPartsAreThere ==
    \A u \in Uploaders : log[u].active => log[u].parts \subseteq remote[log[u].id].parts

(* While an upload is open, R2 keeps its parts. A row's journal or a row's   *)
(* step in progress names it, unless its creation or its failed removal was  *)
(* never heard of; a row that stored the object names none. (No run reads    *)
(* the journal of a row that ended with its HLS copy: what that names stays  *)
(* open until R2 drops it.)                                                  *)
OpenUploadsAreNamed ==
    /\ \A id \in UploadIds : IsOpen(id) =>
          \/ id \in leftOpen
          \/ \E u \in Uploaders : log[u].active /\ log[u].id = id
          \/ \E u \in Uploaders : upper[u].event = "created" /\ upper[u].id = id
    /\ \A u \in Uploaders : At(u, "done") => ~log[u].active

(* A later run can rely on the journal, and no open upload is lost from the  *)
(* journals but those whose answers were.                                    *)
UploadsResume == UploadTypeOK /\ RecordedPartsAreThere /\ OpenUploadsAreNamed

(* However answers are lost and uploads expire, a row whose tool is run      *)
(* again ends, and with the whole object stored unless it has an HLS copy    *)
(* that a failure of its upload left it with.                                *)
UploadEnds ==
    <>(/\ \A u \in Uploaders : At(u, "done") \/ (u \in WithFallback /\ At(u, "derived"))
       /\ (\E u \in Uploaders : At(u, "done")) => object = PartNumbers)
=============================================================================
