----------------------------- MODULE Tools_proofs ------------------------------
(***************************************************************************)
(* Proofs about the tools an operator runs on what has been captured: the   *)
(* upload of a large object, the capture and recovery of media and the      *)
(* loading of a built snapshot, for any number of uploads, media and shards *)
(* and any overlap of the tools.                                            *)
(***************************************************************************)
EXTENDS MultipartUpload, MomentsMedia, SnapshotLoaders, NaturalSets, SequenceTheorems

------------------------------------------------------------------------------
(* The multipart uploads.                                                    *)

Remotes == [state : {"unused", "open", "gone"}, parts : SUBSET PartNumbers]
Logs == [active : BOOLEAN, id : Ids, parts : SUBSET PartNumbers]
Uppers == [at : UploadPhases, again : BOOLEAN, event : Events, id : Ids, part : PartNumbers]

Used(id) == id \in UploadIds /\ remote[id].state # "unused"

\* What a row's journal and its next event may rely on: an active journal names
\* an upload that R2 has opened and has the parts of, an event is of that upload,
\* and one that takes it out of the journal comes when it is closed or is known to
\* be left open.
RowIsSound(l, run) ==
  /\ run.event # "none" <=> run.at = "record"
  /\ l.active => Used(l.id) /\ l.parts \subseteq remote[l.id].parts
  /\ run.at \in {"create", "done"} => ~l.active
  /\ run.at \in {"parts", "complete", "commit", "orphan"} => l.active
  /\ run.event = "created" => ~l.active /\ Used(run.id)
  /\ run.event \in {"part", "completed", "aborted"} => l.active /\ run.id = l.id
  /\ run.event = "part" => run.part \in remote[run.id].parts
  /\ run.event \in {"completed", "aborted"} => run.id \in leftOpen \/ ~IsOpen(run.id)

\* The row accounts for an upload that is open.
Names(l, run, id) == \/ l.active /\ l.id = id
                     \/ run.event = "created" /\ run.id = id

AllNamed == \A id \in UploadIds : IsOpen(id) =>
              id \in leftOpen \/ \E u \in Uploaders : Names(log[u], upper[u], id)

UploadInv ==
  UploadTypeOK /\ AllNamed /\ \A u \in Uploaders : RowIsSound(log[u], upper[u])

LEMMA UploadSuffices == UploadInv => UploadsResume
<1> SUFFICES ASSUME UploadInv PROVE UploadsResume
  OBVIOUS
<1>1. RecordedPartsAreThere
  BY DEF UploadInv, RowIsSound, RecordedPartsAreThere
<1>2. OpenUploadsAreNamed
  <2>1. ASSUME NEW id \in UploadIds, IsOpen(id)
        PROVE  \/ id \in leftOpen
               \/ \E u \in Uploaders : log[u].active /\ log[u].id = id
               \/ \E u \in Uploaders : upper[u].event = "created" /\ upper[u].id = id
    BY <2>1 DEF UploadInv, AllNamed, Names
  <2>2. ASSUME NEW u \in Uploaders, At(u, "done") PROVE ~log[u].active
    BY <2>2 DEF UploadInv, RowIsSound, At
  <2> QED
    BY <2>1, <2>2 DEF OpenUploadsAreNamed
<1> QED
  BY <1>1, <1>2 DEF UploadInv, UploadsResume

LEMMA UploadConstantsHold ==
  /\ PartNumbers \in SUBSET Nat /\ PartNumbers # {}
  /\ NoUpload \in Ids /\ NoUpload \notin UploadIds /\ UploadIds \subseteq Ids
  /\ MaxUploadFaults \in Nat /\ FirstPart \in PartNumbers
<1>1. PartNumbers \in SUBSET Nat /\ PartNumbers # {}
  BY UploadConstants DEF UploadConstants
<1>2. FirstPart \in PartNumbers
  BY <1>1, LeastOf DEF FirstPart
<1> QED
  BY <1>1, <1>2, UploadConstants DEF UploadConstants, Ids

LEMMA UploadTypes ==
  UploadTypeOK <=>
    /\ object \subseteq PartNumbers /\ remote \in [UploadIds -> Remotes]
    /\ log \in [Uploaders -> Logs] /\ upper \in [Uploaders -> Uppers]
    /\ leftOpen \subseteq UploadIds /\ uploadFaults \in 0..MaxUploadFaults
BY DEF UploadTypeOK, Remotes, Logs, Uppers

LEMMA RestingRow ==
  Resting \in Uppers /\ Resting.at = "idle" /\ Resting.event = "none"
BY UploadConstantsHold DEF Resting, Uppers, UploadPhases, Events

\* A row whose strategy failed is in no step of an upload.
LEMMA FailedRow ==
  ASSUME NEW u \in Uploaders, NEW row \in AfterFailure(u)
  PROVE  row \in Uppers /\ row.at \in {"idle", "derived"} /\ row.event = "none"
<1>1. /\ Derived \in Uppers /\ Derived.at = "derived" /\ Derived.event = "none"
  BY UploadConstantsHold DEF Derived, Resting, Uppers, UploadPhases, Events
<1> QED
  BY <1>1, RestingRow DEF AfterFailure

\* R2 forgets no part of an upload and does not reopen one.
RemoteGrows ==
  /\ remote' \in [UploadIds -> Remotes]
  /\ \A id \in UploadIds :
       /\ remote[id].parts \subseteq remote'[id].parts
       /\ remote[id].state # "unused" => remote'[id].state # "unused"
       /\ remote[id].state = "gone" => remote'[id].state = "gone"

LEMMA RemoteStays ==
  ASSUME UploadInv, UNCHANGED remote PROVE RemoteGrows
BY UploadTypes DEF UploadInv, RemoteGrows

LEMMA Closing ==
  ASSUME UploadInv, NEW id \in UploadIds, CloseUpload(id), Used(id)
  PROVE  /\ RemoteGrows /\ ~IsOpen(id)'
         /\ \A i \in UploadIds : IsOpen(i)' => IsOpen(i)
<1>1. PICK old \in Remotes : old = remote[id] /\ old.state # "unused"
  BY UploadTypes DEF UploadInv, Used
<1> DEFINE new == [old EXCEPT !.state = "gone"]
<1>2. new \in Remotes /\ new.parts = old.parts /\ new.state = "gone"
  BY DEF Remotes
<1>3. remote' = [remote EXCEPT ![id] = new]
  BY <1>1 DEF CloseUpload
<1> HIDE DEF new
<1>4. remote' \in [UploadIds -> Remotes] /\ remote'[id] = new
      /\ \A i \in UploadIds : i # id => remote'[i] = remote[i]
  BY <1>2, <1>3, UploadTypes DEF UploadInv
<1>5. RemoteGrows
  BY <1>1, <1>2, <1>4 DEF RemoteGrows
<1>6. ~IsOpen(id)' /\ \A i \in UploadIds : IsOpen(i)' => IsOpen(i)
  BY <1>2, <1>4 DEF IsOpen
<1> QED
  BY <1>5, <1>6

LEMMA Opening ==
  ASSUME UploadInv, NEW id \in Unused, Opened(id)
  PROVE  /\ RemoteGrows /\ id \in UploadIds /\ Used(id)'
         /\ \A i \in UploadIds : IsOpen(i)' => IsOpen(i) \/ i = id
<1>1. PICK old \in Remotes : old = remote[id] /\ old.state = "unused" /\ id \in UploadIds
  BY UploadTypes DEF UploadInv, Unused
<1> DEFINE new == [old EXCEPT !.state = "open"]
<1>2. new \in Remotes /\ new.parts = old.parts /\ new.state = "open"
  BY DEF Remotes
<1>3. remote' = [remote EXCEPT ![id] = new]
  BY <1>1 DEF Opened
<1> HIDE DEF new
<1>4. remote' \in [UploadIds -> Remotes] /\ remote'[id] = new
      /\ \A i \in UploadIds : i # id => remote'[i] = remote[i]
  BY <1>1, <1>2, <1>3, UploadTypes DEF UploadInv
<1> QED
  BY <1>1, <1>2, <1>4 DEF RemoteGrows, IsOpen, Used

\* What holds of a row goes on to hold while others use R2.
LEMMA SoundStays ==
  ASSUME UploadInv, RemoteGrows, leftOpen \subseteq leftOpen',
         NEW l \in Logs, NEW run \in Uppers, RowIsSound(l, run)
  PROVE  RowIsSound(l, run)'
<1>1. ASSUME NEW id, Used(id)
      PROVE  /\ Used(id)' /\ remote[id].parts \subseteq remote'[id].parts
             /\ IsOpen(id)' => IsOpen(id)
  <2>1. id \in UploadIds /\ remote[id].state \in {"open", "gone"}
    BY <1>1, UploadTypes DEF UploadInv, Used, Remotes
  <2> QED
    BY <1>1, <2>1 DEF RemoteGrows, Used, IsOpen
<1>2. l.active => Used(l.id)
  BY DEF RowIsSound
<1>3. run.event \in {"part", "completed", "aborted"} => Used(run.id)
  BY <1>2 DEF RowIsSound
<1> QED
  BY <1>1, <1>2, <1>3 DEF RowIsSound

\* A step of one row keeps the invariant if the row stays sound, names what it
\* has opened and goes on to name what it named.
LEMMA RowStep ==
  ASSUME UploadInv, NEW u \in Uploaders, NEW l \in Logs, NEW run \in Uppers,
         log' = [log EXCEPT ![u] = l], upper' = [upper EXCEPT ![u] = run],
         RemoteGrows, object' \subseteq PartNumbers,
         leftOpen' \subseteq UploadIds, leftOpen \subseteq leftOpen',
         uploadFaults' \in 0..MaxUploadFaults, RowIsSound(l, run)',
         \A id \in UploadIds : IsOpen(id)' =>
            IsOpen(id) \/ Names(l, run, id) \/ id \in leftOpen',
         \A id \in UploadIds : IsOpen(id)' /\ Names(log[u], upper[u], id) =>
            Names(l, run, id) \/ id \in leftOpen'
  PROVE  UploadInv'
<1>1. /\ log \in [Uploaders -> Logs] /\ upper \in [Uploaders -> Uppers]
      /\ log'[u] = l /\ upper'[u] = run
      /\ \A v \in Uploaders : v # u => log'[v] = log[v] /\ upper'[v] = upper[v]
  BY UploadTypes DEF UploadInv
<1>2. UploadTypeOK'
  <2>1. log' \in [Uploaders -> Logs] /\ upper' \in [Uploaders -> Uppers]
    BY <1>1
  <2> QED
    BY <2>1 DEF UploadTypeOK, RemoteGrows, Remotes, Logs, Uppers
<1>3. ASSUME NEW v \in Uploaders PROVE RowIsSound(log[v], upper[v])'
  <2>1. CASE v = u
    BY <1>1, <2>1 DEF RowIsSound
  <2>2. CASE v # u
    <3>1. PICK m \in Logs, r \in Uppers : m = log[v] /\ r = upper[v]
      BY <1>1
    <3>2. RowIsSound(m, r)
      BY <3>1 DEF UploadInv
    <3>3. RowIsSound(m, r)'
      BY <3>2, SoundStays
    <3>4. m = log'[v] /\ r = upper'[v]
      BY <1>1, <2>2, <3>1
    <3> QED
      BY <3>3, <3>4 DEF RowIsSound
  <2> QED
    BY <2>1, <2>2
<1>4. ASSUME NEW id \in UploadIds, IsOpen(id)'
      PROVE  id \in leftOpen' \/ \E v \in Uploaders : Names(log'[v], upper'[v], id)
  <2>1. CASE Names(l, run, id) \/ id \in leftOpen'
    BY <1>1, <2>1
  <2>2. CASE \E v \in Uploaders : v # u /\ Names(log[v], upper[v], id)
    BY <1>1, <2>2
  <2>3. CASE Names(log[u], upper[u], id)
    BY <1>4, <2>1, <2>3
  <2> QED
    BY <1>4, <2>1, <2>2, <2>3 DEF UploadInv, AllNamed
<1> QED
  BY <1>2, <1>3, <1>4 DEF UploadInv, AllNamed, Names

LEMMA RowNow ==
  ASSUME UploadInv, NEW u \in Uploaders
  PROVE  \E l \in Logs, run \in Uppers :
           /\ l = log[u] /\ run = upper[u] /\ RowIsSound(l, run)
           /\ log = [log EXCEPT ![u] = l] /\ upper = [upper EXCEPT ![u] = run]
<1>1. log[u] \in Logs /\ upper[u] \in Uppers /\ RowIsSound(log[u], upper[u])
  BY UploadTypes DEF UploadInv
<1>2. log = [log EXCEPT ![u] = log[u]] /\ upper = [upper EXCEPT ![u] = upper[u]]
  BY UploadTypes DEF UploadInv
<1> QED
  BY <1>1, <1>2

\* A row that moves on without a word to R2.
LEMMA RowMoves ==
  ASSUME UploadInv, NEW u \in Uploaders, NEW run \in Uppers,
         upper' = [upper EXCEPT ![u] = run],
         UNCHANGED <<object, remote, log, leftOpen>>,
         uploadFaults' \in 0..MaxUploadFaults,
         run.event = "none", run.at # "record", upper[u].event = "none",
         run.at \in {"create", "done"} => ~log[u].active,
         run.at \in {"parts", "complete", "commit", "orphan"} => log[u].active
  PROVE  UploadInv'
<1>1. PICK l \in Logs, old \in Uppers :
        /\ l = log[u] /\ old = upper[u] /\ RowIsSound(l, old) /\ log = [log EXCEPT ![u] = l]
  BY RowNow
<1>2. RemoteGrows
  BY RemoteStays
<1>3. RowIsSound(l, run)'
  BY <1>1 DEF RowIsSound, Used
<1>4. \A id \in UploadIds : IsOpen(id)' => IsOpen(id)
  BY DEF IsOpen
<1>5. \A id \in UploadIds : Names(log[u], upper[u], id) => Names(l, run, id)
  BY <1>1 DEF Names
<1>6. object \subseteq PartNumbers /\ leftOpen \subseteq UploadIds
  BY UploadTypes DEF UploadInv
<1> QED
  BY <1>1, <1>2, <1>3, <1>4, <1>5, <1>6, RowStep

LEMMA WithinFaults ==
  ASSUME UploadInv, UNCHANGED uploadFaults \/ UploadFault
  PROVE  uploadFaults' \in 0..MaxUploadFaults
BY UploadTypes, UploadConstantsHold DEF UploadInv, UploadFault

LEMMA MovingKeeps ==
  ASSUME UploadInv, NEW u \in Uploaders, Begin(u) \/ LookUp(u) \/ AllParts(u)
  PROVE  UploadInv'
<1>1. PICK l \in Logs, old \in Uppers :
        l = log[u] /\ old = upper[u] /\ RowIsSound(l, old)
  BY RowNow
<1>2. old.event = "none" /\ uploadFaults' \in 0..MaxUploadFaults
      /\ UNCHANGED <<object, remote, log, leftOpen>>
  BY <1>1, WithinFaults DEF RowIsSound, Begin, LookUp, AllParts, At
<1>3. CASE Begin(u)
  <2> DEFINE run == [Resting EXCEPT !.at = "head"]
  <2>1. run \in Uppers /\ run.at = "head" /\ run.event = "none"
    BY RestingRow DEF Uppers, UploadPhases
  <2>2. upper' = [upper EXCEPT ![u] = run]
    BY <1>3 DEF Begin
  <2> HIDE DEF run
  <2> QED
    BY <1>1, <1>2, <2>1, <2>2, RowMoves
<1>4. CASE LookUp(u)
  <2> DEFINE run == [old EXCEPT !.at = AfterHead(u)]
  <2>1. CASE object # {}
    <3>1. PICK at \in {"orphan", "done"} : at = AfterHead(u) /\ (at = "orphan" <=> l.active)
      BY <1>1, <2>1 DEF AfterHead, Logs
    <3>2. run \in Uppers /\ run.at = at /\ run.event = "none"
      BY <1>2, <3>1 DEF Uppers, UploadPhases
    <3>3. upper' = [upper EXCEPT ![u] = run]
      BY <1>1, <1>4 DEF LookUp, Go
    <3> HIDE DEF run
    <3> QED
      BY <1>1, <1>2, <3>1, <3>2, <3>3, RowMoves
  <2>2. CASE object = {}
    <3>1. PICK at \in {"parts", "create"} : at = AfterHead(u) /\ (at = "parts" <=> l.active)
      BY <1>1, <2>2 DEF AfterHead, Logs
    <3>2. run \in Uppers /\ run.at = at /\ run.event = "none"
      BY <1>2, <3>1 DEF Uppers, UploadPhases
    <3>3. upper' = [upper EXCEPT ![u] = run]
      BY <1>1, <1>4 DEF LookUp, Go
    <3> HIDE DEF run
    <3> QED
      BY <1>1, <1>2, <3>1, <3>2, <3>3, RowMoves
  <2> QED
    BY <2>1, <2>2
<1>5. CASE AllParts(u)
  <2> DEFINE run == [old EXCEPT !.at = "complete"]
  <2>1. run \in Uppers /\ run.at = "complete" /\ run.event = "none"
    BY <1>2 DEF Uppers, UploadPhases
  <2>2. upper' = [upper EXCEPT ![u] = run]
    BY <1>1, <1>5 DEF AllParts, Go
  <2>3. l.active
    BY <1>1, <1>5 DEF AllParts, At, RowIsSound
  <2> HIDE DEF run
  <2> QED
    BY <1>1, <1>2, <2>1, <2>2, <2>3, RowMoves
<1> QED
  BY <1>3, <1>4, <1>5

\* A row whose call has closed its upload, or left it open for good, or found it
\* gone, and has that to record.
LEMMA RowLetsGo ==
  ASSUME UploadInv, NEW u \in Uploaders, NEW event \in {"completed", "aborted"},
         ToRecord(u, event, log[u].id, FirstPart), log[u].active,
         UNCHANGED log, object' \subseteq PartNumbers,
         leftOpen' \subseteq UploadIds, leftOpen \subseteq leftOpen',
         uploadFaults' \in 0..MaxUploadFaults,
         RemoteGrows, \A i \in UploadIds : IsOpen(i)' => IsOpen(i),
         log[u].id \in leftOpen' \/ ~IsOpen(log[u].id)', upper[u].event = "none"
  PROVE  UploadInv'
<1>1. PICK l \in Logs, old \in Uppers :
        /\ l = log[u] /\ old = upper[u] /\ RowIsSound(l, old) /\ log = [log EXCEPT ![u] = l]
  BY RowNow
<1> DEFINE run == [old EXCEPT !.at = "record", !.event = event, !.id = l.id, !.part = FirstPart]
<1>2. /\ run \in Uppers /\ run.at = "record" /\ run.event = event /\ run.id = l.id
  BY UploadConstantsHold DEF Uppers, UploadPhases, Events, Logs
<1>3. upper' = [upper EXCEPT ![u] = run]
  BY <1>1, UploadTypes DEF ToRecord, UploadInv
<1> HIDE DEF run
<1>4. RowIsSound(l, old)'
  BY <1>1, SoundStays
<1>5. l.id \in leftOpen' \/ ~IsOpen(l.id)'
  BY <1>1
<1>6. RowIsSound(l, run)'
  BY <1>1, <1>2, <1>4, <1>5 DEF RowIsSound
<1>7. \A id \in UploadIds : Names(log[u], upper[u], id) => Names(l, run, id)
  BY <1>1 DEF Names
<1> QED
  BY <1>1, <1>2, <1>3, <1>6, <1>7, RowStep

LEMMA UploadStops ==
  ASSUME UploadInv, NEW u \in Uploaders, NEW row \in AfterFailure(u),
         upper' = [upper EXCEPT ![u] = row],
         UNCHANGED <<object, remote, log>>, uploadFaults' \in 0..MaxUploadFaults,
         leftOpen' = IF upper[u].event = "created" THEN leftOpen \cup {upper[u].id}
                     ELSE leftOpen
  PROVE  UploadInv'
<1>1. PICK l \in Logs, old \in Uppers :
        /\ l = log[u] /\ old = upper[u] /\ RowIsSound(l, old) /\ log = [log EXCEPT ![u] = l]
  BY RowNow
<1>2. RemoteGrows /\ object \subseteq PartNumbers /\ leftOpen \subseteq UploadIds
  BY RemoteStays, UploadTypes DEF UploadInv
<1>3. leftOpen \subseteq leftOpen' /\ leftOpen' \subseteq UploadIds
  BY <1>1, <1>2 DEF RowIsSound, Used
<1>4. RowIsSound(l, row)'
  BY <1>1, FailedRow DEF RowIsSound, Used
<1>5. \A id \in UploadIds : Names(log[u], upper[u], id) =>
         Names(l, row, id) \/ id \in leftOpen'
  BY <1>1 DEF Names
<1>6. \A id \in UploadIds : IsOpen(id)' => IsOpen(id)
  BY DEF IsOpen
<1> QED
  BY <1>1, <1>2, <1>3, <1>4, <1>5, <1>6, FailedRow, RowStep

LEMMA StopKeeps ==
  ASSUME UploadInv, NEW u \in Uploaders, Stop(u) PROVE UploadInv'
<1>1. PICK row \in AfterFailure(u) : upper' = [upper EXCEPT ![u] = row]
  BY DEF Stop
<1> QED
  BY <1>1, UploadStops, WithinFaults DEF Stop

LEMMA StartOverKeeps ==
  ASSUME UploadInv, NEW u \in Uploaders, StartOver(u), log[u].active, ~IsOpen(log[u].id),
         upper[u].event = "none", UNCHANGED <<object, remote, log, leftOpen, uploadFaults>>
  PROVE  UploadInv'
<1>1. CASE upper[u].again
  <2>1. PICK row \in AfterFailure(u) : upper' = [upper EXCEPT ![u] = row]
    BY <1>1 DEF StartOver
  <2> QED
    BY <2>1, UploadStops, WithinFaults
<1>2. CASE ~upper[u].again
  <2>1. RemoteGrows /\ object \subseteq PartNumbers /\ leftOpen \subseteq UploadIds
    BY RemoteStays, UploadTypes DEF UploadInv
  <2>2. ToRecord(u, "aborted", log[u].id, FirstPart)
    BY <1>2 DEF StartOver
  <2>3. (\A i \in UploadIds : IsOpen(i)' => IsOpen(i)) /\ ~IsOpen(log[u].id)'
    BY DEF IsOpen
  <2> QED
    BY <2>1, <2>2, <2>3, RowLetsGo, WithinFaults
<1> QED
  BY <1>1, <1>2

\* At these points of its upload a row's journal is active and has no event due.
LEMMA Working ==
  ASSUME UploadInv, NEW u \in Uploaders,
         At(u, "orphan") \/ At(u, "parts") \/ At(u, "complete") \/ At(u, "commit")
  PROVE  /\ log[u].active /\ log[u].id \in UploadIds /\ Used(log[u].id)
         /\ upper[u].event = "none"
         /\ log[u].parts \subseteq remote[log[u].id].parts
<1>1. PICK l \in Logs, old \in Uppers :
        l = log[u] /\ old = upper[u] /\ RowIsSound(l, old)
  BY RowNow
<1> QED
  BY <1>1 DEF At, RowIsSound, Used

LEMMA DropOrphanKeeps ==
  ASSUME UploadInv, NEW u \in Uploaders, DropOrphan(u) PROVE UploadInv'
<1>1. log[u].active /\ log[u].id \in UploadIds /\ Used(log[u].id) /\ upper[u].event = "none"
  BY Working DEF DropOrphan
<1>2. PICK id \in UploadIds : id = log[u].id
  BY <1>1
<1>3. /\ RemoteGrows /\ ~IsOpen(id)' /\ \A i \in UploadIds : IsOpen(i)' => IsOpen(i)
  BY <1>1, <1>2, Closing DEF DropOrphan
<1>4. ~IsOpen(log[u].id)'
  BY <1>2, <1>3 DEF DropOrphan
<1> QED
  BY <1>1, <1>3, <1>4, RowLetsGo, UploadTypes DEF DropOrphan, UploadInv

\* An upload is opened for a row whose journal names none.
LEMMA CreateKeeps ==
  ASSUME UploadInv, NEW u \in Uploaders, Create(u) PROVE UploadInv'
<1>1. PICK l \in Logs, old \in Uppers :
        /\ l = log[u] /\ old = upper[u] /\ RowIsSound(l, old) /\ log = [log EXCEPT ![u] = l]
  BY RowNow
<1>2. /\ old.event = "none" /\ ~l.active /\ uploadFaults' \in 0..MaxUploadFaults
      /\ UNCHANGED <<object, log, leftOpen>>
      /\ object \subseteq PartNumbers /\ leftOpen \subseteq UploadIds
  BY <1>1, WithinFaults, UploadTypes DEF RowIsSound, Create, At, UploadInv
<1>3. CASE Go(u, "done") /\ UNCHANGED remote
  <2> DEFINE run == [old EXCEPT !.at = "done"]
  <2>1. run \in Uppers /\ run.at = "done" /\ run.event = "none"
    BY <1>2 DEF Uppers, UploadPhases
  <2>2. upper' = [upper EXCEPT ![u] = run]
    BY <1>1, <1>3 DEF Go
  <2> HIDE DEF run
  <2> QED
    BY <1>1, <1>2, <1>3, <2>1, <2>2, RowMoves
<1>4. ASSUME NEW id \in Unused, Opened(id), ToRecord(u, "created", id, FirstPart)
      PROVE  UploadInv'
  <2>1. PICK i \in UploadIds : i = id
    BY DEF Unused
  <2>2. RemoteGrows /\ Used(i)' /\ \A k \in UploadIds : IsOpen(k)' => IsOpen(k) \/ k = i
    BY <1>4, <2>1, Opening DEF Used
  <2> DEFINE run == [old EXCEPT !.at = "record", !.event = "created", !.id = i,
                                !.part = FirstPart]
  <2>3. /\ run \in Uppers /\ run.at = "record" /\ run.event = "created" /\ run.id = i
    BY UploadConstantsHold DEF Uppers, UploadPhases, Events
  <2>4. upper' = [upper EXCEPT ![u] = run]
    BY <1>1, <1>4, <2>1, UploadTypes DEF ToRecord, UploadInv
  <2> HIDE DEF run
  <2>5. RowIsSound(l, run)'
    BY <1>2, <2>2, <2>3 DEF RowIsSound
  <2>6. \A k \in UploadIds : ~Names(log[u], upper[u], k)
    BY <1>1, <1>2 DEF Names
  <2>7. \A k \in UploadIds : IsOpen(k)' => IsOpen(k) \/ Names(l, run, k)
    BY <2>2, <2>3 DEF Names
  <2> QED
    BY <1>1, <1>2, <2>2, <2>3, <2>4, <2>5, <2>6, <2>7, RowStep
<1>5. CASE Unused # {} /\ ~(Go(u, "done") /\ UNCHANGED remote)
  <2>1. (CHOOSE i \in Unused : TRUE) \in Unused
    BY <1>5
  <2> QED
    BY <1>4, <1>5, <2>1 DEF Create
<1> QED
  BY <1>3, <1>5 DEF Create

LEMMA CreateUnheardKeeps ==
  ASSUME UploadInv, NEW u \in Uploaders, CreateUnheard(u) PROVE UploadInv'
<1>1. PICK l \in Logs, old \in Uppers :
        /\ l = log[u] /\ old = upper[u] /\ RowIsSound(l, old)
        /\ log = [log EXCEPT ![u] = l] /\ upper = [upper EXCEPT ![u] = old]
  BY RowNow
<1>2. PICK id \in Unused : Opened(id) /\ leftOpen' = leftOpen \cup {id}
  BY DEF CreateUnheard
<1>3. PICK i \in UploadIds : i = id
  BY DEF Unused
<1>4. RemoteGrows /\ \A k \in UploadIds : IsOpen(k)' => IsOpen(k) \/ k = i
  BY <1>2, <1>3, Opening
<1>5. /\ UNCHANGED <<object, log, upper>> /\ object \subseteq PartNumbers
      /\ leftOpen' \subseteq UploadIds /\ leftOpen \subseteq leftOpen'
      /\ uploadFaults' \in 0..MaxUploadFaults
  BY <1>2, <1>3, WithinFaults, UploadTypes DEF CreateUnheard, UploadInv
<1>6. RowIsSound(l, old)'
  BY <1>1, <1>4, <1>5, SoundStays
<1>7. \A k \in UploadIds : Names(log[u], upper[u], k) => Names(l, old, k)
  BY <1>1
<1>8. i \in leftOpen'
  BY <1>2, <1>3
<1> QED
  BY <1>1, <1>4, <1>5, <1>6, <1>7, <1>8, RowStep

\* A part is sent to the upload its journal names.
LEMMA UploadPartKeeps ==
  ASSUME UploadInv, NEW u \in Uploaders, UploadPart(u) PROVE UploadInv'
<1>1. PICK l \in Logs, old \in Uppers :
        /\ l = log[u] /\ old = upper[u] /\ RowIsSound(l, old) /\ log = [log EXCEPT ![u] = l]
  BY RowNow
<1>2. /\ l.active /\ l.id \in UploadIds /\ Used(l.id) /\ old.event = "none"
      /\ UNCHANGED <<object, log, leftOpen, uploadFaults>>
      /\ object \subseteq PartNumbers /\ leftOpen \subseteq UploadIds
      /\ uploadFaults' \in 0..MaxUploadFaults
  BY <1>1, Working, WithinFaults, UploadTypes DEF UploadPart, UploadInv
<1>3. CASE ~IsOpen(log[u].id)
  <2>1. StartOver(u) /\ UNCHANGED remote
    BY <1>3 DEF UploadPart
  <2> QED
    BY <1>1, <1>2, <1>3, <2>1, StartOverKeeps
<1>4. CASE IsOpen(log[u].id)
  <2>1. PICK p \in Missing(u) : /\ remote' = [remote EXCEPT ![log[u].id].parts = @ \cup {p}]
                                /\ ToRecord(u, "part", log[u].id, p)
    <3>1. Missing(u) \in SUBSET Nat /\ Missing(u) # {}
      BY UploadConstantsHold DEF Missing, UploadPart
    <3>2. (CHOOSE p \in Missing(u) : \A q \in Missing(u) : p <= q) \in Missing(u)
      BY <3>1, LeastOf
    <3> QED
      BY <1>4, <3>2 DEF UploadPart
  <2>2. PICK part \in PartNumbers : part = p
    BY DEF Missing
  <2>3. PICK there \in Remotes : there = remote[l.id] /\ there.state = "open"
    BY <1>1, <1>2, <1>4, UploadTypes DEF UploadInv, IsOpen
  <2> DEFINE new == [there EXCEPT !.parts = there.parts \cup {part}]
  <2>4. new \in Remotes /\ new.state = "open" /\ new.parts = there.parts \cup {part}
    BY <2>3 DEF Remotes
  <2>5. remote' = [remote EXCEPT ![l.id] = new]
    BY <1>1, <2>1, <2>2, <2>3
  <2> HIDE DEF new
  <2>6. /\ remote' \in [UploadIds -> Remotes] /\ remote'[l.id] = new
        /\ \A i \in UploadIds : i # l.id => remote'[i] = remote[i]
    BY <1>2, <2>4, <2>5, UploadTypes DEF UploadInv
  <2>7. RemoteGrows
    BY <2>3, <2>4, <2>6 DEF RemoteGrows
  <2>8. \A i \in UploadIds : IsOpen(i)' => IsOpen(i)
    BY <2>3, <2>4, <2>6 DEF IsOpen
  <2> DEFINE run == [old EXCEPT !.at = "record", !.event = "part", !.id = l.id, !.part = part]
  <2>9. /\ run \in Uppers /\ run.at = "record" /\ run.event = "part" /\ run.id = l.id
        /\ run.part = part
    BY UploadConstantsHold DEF Uppers, UploadPhases, Events, Logs
  <2>10. upper' = [upper EXCEPT ![u] = run]
    BY <1>1, <2>1, <2>2, UploadTypes DEF ToRecord, UploadInv
  <2> HIDE DEF run
  <2>11. RowIsSound(l, old)'
    BY <1>1, <1>2, <2>7, SoundStays
  <2>12. RowIsSound(l, run)'
    BY <1>2, <2>4, <2>6, <2>9, <2>11 DEF RowIsSound
  <2>13. \A id \in UploadIds : Names(log[u], upper[u], id) => Names(l, run, id)
    BY <1>1, <1>2 DEF Names
  <2> QED
    BY <1>1, <1>2, <2>7, <2>8, <2>9, <2>10, <2>12, <2>13, RowStep
<1> QED
  BY <1>3, <1>4

LEMMA CompleteLooksKeeps ==
  ASSUME UploadInv, NEW u \in Uploaders, CompleteLooks(u) PROVE UploadInv'
<1>1. PICK l \in Logs, old \in Uppers :
        /\ l = log[u] /\ old = upper[u] /\ RowIsSound(l, old) /\ log = [log EXCEPT ![u] = l]
  BY RowNow
<1>2. /\ l.active /\ l.id \in UploadIds /\ Used(l.id) /\ old.event = "none"
      /\ UNCHANGED <<object, log>> /\ object \subseteq PartNumbers /\ leftOpen \subseteq UploadIds
  BY <1>1, Working, UploadTypes DEF CompleteLooks, UploadInv
<1>3. CASE Go(u, "commit") /\ UNCHANGED <<remote, leftOpen, uploadFaults>>
  <2> DEFINE run == [old EXCEPT !.at = "commit"]
  <2>1. run \in Uppers /\ run.at = "commit" /\ run.event = "none"
    BY <1>2 DEF Uppers, UploadPhases
  <2>2. upper' = [upper EXCEPT ![u] = run]
    BY <1>1, <1>3 DEF Go
  <2> HIDE DEF run
  <2> QED
    BY <1>1, <1>2, <1>3, <2>1, <2>2, RowMoves, WithinFaults
<1>4. CASE /\ CloseUpload(log[u].id) /\ ToRecord(u, "completed", log[u].id, FirstPart)
           /\ UNCHANGED <<leftOpen, uploadFaults>>
  <2>1. /\ RemoteGrows /\ ~IsOpen(l.id)' /\ \A i \in UploadIds : IsOpen(i)' => IsOpen(i)
    BY <1>1, <1>2, <1>4, Closing
  <2>2. ~IsOpen(log[u].id)'
    BY <1>1, <1>2, <2>1
  <2> QED
    BY <1>1, <1>2, <1>4, <2>1, <2>2, RowLetsGo, WithinFaults
<1>5. CASE /\ UploadFault /\ leftOpen' = leftOpen \cup {log[u].id}
           /\ ToRecord(u, "completed", log[u].id, FirstPart) /\ UNCHANGED remote
  <2>1. RemoteGrows /\ \A i \in UploadIds : IsOpen(i)' => IsOpen(i)
    BY <1>5, RemoteStays DEF IsOpen
  <2>2. leftOpen \subseteq leftOpen' /\ leftOpen' \subseteq UploadIds /\ log[u].id \in leftOpen'
    BY <1>1, <1>2, <1>5
  <2> QED
    BY <1>1, <1>2, <1>5, <2>1, <2>2, RowLetsGo, WithinFaults
<1> QED
  BY <1>3, <1>4, <1>5 DEF CompleteLooks

LEMMA CompleteCommitsKeeps ==
  ASSUME UploadInv, NEW u \in Uploaders, CompleteCommits(u) PROVE UploadInv'
<1>1. PICK l \in Logs, old \in Uppers :
        /\ l = log[u] /\ old = upper[u] /\ RowIsSound(l, old) /\ log = [log EXCEPT ![u] = l]
  BY RowNow
<1>2. /\ l.active /\ l.id \in UploadIds /\ Used(l.id) /\ old.event = "none"
      /\ UNCHANGED <<log, leftOpen, uploadFaults>>
      /\ object \subseteq PartNumbers /\ leftOpen \subseteq UploadIds
  BY <1>1, Working, UploadTypes DEF CompleteCommits, UploadInv
<1>3. CASE IsOpen(log[u].id)
  <2>1. Committed(u) /\ ToRecord(u, "completed", log[u].id, FirstPart)
    BY <1>3 DEF CompleteCommits
  <2>2. /\ RemoteGrows /\ ~IsOpen(l.id)' /\ \A i \in UploadIds : IsOpen(i)' => IsOpen(i)
    BY <1>1, <1>2, <2>1, Closing DEF Committed
  <2>3. ~IsOpen(log[u].id)' /\ object' \subseteq PartNumbers
    BY <1>1, <1>2, <2>1, <2>2 DEF Committed, Logs
  <2> QED
    BY <1>1, <1>2, <2>1, <2>2, <2>3, RowLetsGo, WithinFaults
<1>4. CASE ~IsOpen(log[u].id)
  BY <1>1, <1>2, <1>4, StartOverKeeps DEF CompleteCommits
<1> QED
  BY <1>3, <1>4

LEMMA CompleteUnheardKeeps ==
  ASSUME UploadInv, NEW u \in Uploaders, CompleteUnheard(u) PROVE UploadInv'
<1>1. PICK l \in Logs, old \in Uppers :
        /\ l = log[u] /\ old = upper[u] /\ RowIsSound(l, old) /\ log = [log EXCEPT ![u] = l]
  BY RowNow
<1>2. /\ l.active /\ l.id \in UploadIds /\ Used(l.id) /\ old.event = "none"
      /\ UNCHANGED <<log, leftOpen>> /\ leftOpen \subseteq UploadIds
      /\ uploadFaults' \in 0..MaxUploadFaults
  BY <1>1, Working, WithinFaults, UploadTypes DEF CompleteUnheard, UploadInv
<1>3. /\ RemoteGrows /\ \A i \in UploadIds : IsOpen(i)' => IsOpen(i)
  BY <1>1, <1>2, Closing DEF CompleteUnheard, Committed
<1>4. object' \subseteq PartNumbers
  BY <1>1 DEF CompleteUnheard, Committed, Logs
<1> DEFINE run == [old EXCEPT !.at = "complete"]
<1>5. run \in Uppers /\ run.at = "complete" /\ run.event = "none"
  BY <1>2 DEF Uppers, UploadPhases
<1>6. upper' = [upper EXCEPT ![u] = run]
  BY <1>1 DEF CompleteUnheard, Go
<1> HIDE DEF run
<1>7. RowIsSound(l, old)'
  BY <1>1, <1>2, <1>3, SoundStays
<1>8. RowIsSound(l, run)'
  BY <1>2, <1>5, <1>7 DEF RowIsSound
<1>9. \A id \in UploadIds : Names(log[u], upper[u], id) => Names(l, run, id)
  BY <1>1, <1>2 DEF Names
<1> QED
  BY <1>1, <1>2, <1>3, <1>4, <1>5, <1>6, <1>8, <1>9, RowStep

\* What applyMultipartEvent makes of the events that can come.
LEMMA AppliedRows ==
  ASSUME NEW l \in Logs, NEW e \in Uppers
  PROVE  /\ e.event = "created" =>
              /\ Applied(l, e) \in Logs /\ Applied(l, e).active
              /\ Applied(l, e).id = e.id /\ Applied(l, e).parts = {}
         /\ e.event = "part" /\ l.active /\ l.id = e.id =>
              /\ Applied(l, e) \in Logs /\ Applied(l, e).active
              /\ Applied(l, e).id = l.id /\ Applied(l, e).parts = l.parts \cup {e.part}
         /\ e.event \in {"completed", "aborted"} /\ l.id = e.id =>
              /\ Applied(l, e) \in Logs /\ ~Applied(l, e).active
<1>1. CASE e.event = "created"
  <2>1. Applied(l, e) = [active |-> TRUE, id |-> e.id, parts |-> {}]
    BY <1>1 DEF Applied
  <2> QED
    BY <1>1, <2>1 DEF Logs, Uppers
<1>2. CASE e.event = "part" /\ l.active /\ l.id = e.id
  <2>1. Applied(l, e) = [l EXCEPT !.parts = l.parts \cup {e.part}]
    BY <1>2 DEF Applied
  <2> QED
    BY <1>2, <2>1 DEF Logs, Uppers
<1>3. CASE e.event \in {"completed", "aborted"} /\ l.id = e.id
  <2>1. Applied(l, e) = [l EXCEPT !.active = FALSE]
    BY <1>3 DEF Applied
  <2> QED
    BY <1>3, <2>1 DEF Logs
<1> QED
  BY <1>1, <1>2, <1>3

LEMMA RecordKeeps ==
  ASSUME UploadInv, NEW u \in Uploaders, Record(u) PROVE UploadInv'
<1>1. PICK l \in Logs, old \in Uppers :
        l = log[u] /\ old = upper[u] /\ RowIsSound(l, old)
  BY RowNow
<1>2. /\ UNCHANGED <<object, remote, leftOpen, uploadFaults>> /\ RemoteGrows
      /\ object \subseteq PartNumbers /\ leftOpen \subseteq UploadIds
      /\ uploadFaults' \in 0..MaxUploadFaults
  BY RemoteStays, WithinFaults, UploadTypes DEF Record, UploadInv
<1>3. old.event \in {"created", "part", "completed", "aborted"}
  BY <1>1 DEF Uppers, Events, Record, At, RowIsSound
<1>4. /\ old.event = "created" => ~l.active /\ Used(old.id)
      /\ old.event \in {"part", "completed", "aborted"} => l.active /\ old.id = l.id
  BY <1>1 DEF RowIsSound
<1>5. PICK new \in Logs : new = Applied(l, old)
  BY <1>3, <1>4, AppliedRows
<1>6. AfterRecord(u) \in {"parts", "done", "head"}
      /\ (AfterRecord(u) = "parts" <=> old.event \in {"created", "part"})
  BY <1>1, <1>3 DEF AfterRecord
<1>7. PICK run \in Uppers :
         /\ run.at = AfterRecord(u) /\ run.event = "none"
         /\ run = [old EXCEPT !.at = AfterRecord(u), !.event = "none",
                              !.again = old.again \/ old.event = "aborted"]
  <2> DEFINE next == [old EXCEPT !.at = AfterRecord(u), !.event = "none",
                                 !.again = old.again \/ old.event = "aborted"]
  <2>1. next \in Uppers /\ next.at = AfterRecord(u) /\ next.event = "none"
    BY <1>6 DEF Uppers, UploadPhases, Events
  <2> QED
    BY <2>1
<1>8. upper' = [upper EXCEPT ![u] = run] /\ log' = [log EXCEPT ![u] = new]
  BY <1>1, <1>5, <1>7, UploadTypes DEF Record, UploadInv
<1>9. RowIsSound(new, run)
  <2>1. CASE old.event = "created"
    BY <1>4, <1>5, <1>6, <1>7, <2>1, AppliedRows DEF RowIsSound
  <2>2. CASE old.event = "part"
    BY <1>1, <1>4, <1>5, <1>6, <1>7, <2>2, AppliedRows DEF RowIsSound
  <2>3. CASE old.event \in {"completed", "aborted"}
    BY <1>4, <1>5, <1>6, <1>7, <2>3, AppliedRows DEF RowIsSound
  <2> QED
    BY <1>3, <2>1, <2>2, <2>3
<1>10. RowIsSound(new, run)'
  BY <1>2, <1>9, SoundStays
<1>11. ASSUME NEW id \in UploadIds, IsOpen(id), Names(l, old, id)
       PROVE  Names(new, run, id) \/ id \in leftOpen
  <2>1. CASE old.event = "created"
    BY <1>4, <1>5, <1>11, <2>1, AppliedRows DEF Names
  <2>2. CASE old.event = "part"
    BY <1>4, <1>5, <1>11, <2>2, AppliedRows DEF Names
  <2>3. CASE old.event \in {"completed", "aborted"}
    BY <1>1, <1>11, <2>3 DEF Names, RowIsSound
  <2> QED
    BY <1>3, <2>1, <2>2, <2>3
<1>12. \A id \in UploadIds : IsOpen(id)' => IsOpen(id)
  BY <1>2 DEF IsOpen
<1>13. /\ RemoteGrows /\ object' \subseteq PartNumbers /\ leftOpen' \subseteq UploadIds
       /\ leftOpen \subseteq leftOpen' /\ uploadFaults' \in 0..MaxUploadFaults
  BY <1>2
<1>14. \A id \in UploadIds : IsOpen(id)' =>
          IsOpen(id) \/ Names(new, run, id) \/ id \in leftOpen'
  BY <1>12
<1>15. \A id \in UploadIds : IsOpen(id)' /\ Names(log[u], upper[u], id) =>
          Names(new, run, id) \/ id \in leftOpen'
  <2> SUFFICES ASSUME NEW id \in UploadIds, IsOpen(id)', Names(log[u], upper[u], id)
               PROVE  Names(new, run, id) \/ id \in leftOpen
    BY <1>2
  <2>1. IsOpen(id) /\ Names(l, old, id)
    BY <1>1, <1>12
  <2> QED
    BY <1>11, <2>1
<1> QED
  BY <1>8, <1>10, <1>13, <1>14, <1>15, RowStep

LEMMA ExpireKeeps ==
  ASSUME UploadInv, NEW id \in UploadIds, Expire(id) PROVE UploadInv'
<1>1. RemoteGrows /\ \A i \in UploadIds : IsOpen(i)' => IsOpen(i)
  BY Closing DEF Expire, Used, IsOpen
<1>2. UNCHANGED <<object, log, upper, leftOpen>> /\ uploadFaults' \in 0..MaxUploadFaults
  BY WithinFaults DEF Expire
<1>3. UploadTypeOK'
  BY <1>1, <1>2, UploadTypes DEF UploadInv, UploadTypeOK, RemoteGrows, Remotes
<1>4. AllNamed'
  BY <1>1, <1>2 DEF UploadInv, AllNamed, Names
<1>5. ASSUME NEW u \in Uploaders PROVE RowIsSound(log[u], upper[u])'
  <2>1. PICK l \in Logs, old \in Uppers :
          l = log[u] /\ old = upper[u] /\ RowIsSound(l, old)
    BY RowNow
  <2>2. RowIsSound(l, old)' /\ l = log'[u] /\ old = upper'[u]
    BY <1>1, <1>2, <2>1, SoundStays
  <2> QED
    BY <2>2 DEF RowIsSound
<1> QED
  BY <1>3, <1>4, <1>5 DEF UploadInv

LEMMA UploadInitially ==
  ASSUME UploadInit PROVE UploadInv
<1>1. /\ NoLog \in Logs /\ ~NoLog.active
      /\ \A u \in Uploaders : log[u] = NoLog /\ upper[u] = Resting
      /\ \A id \in UploadIds : ~IsOpen(id)
  BY UploadConstantsHold DEF UploadInit, NoLog, Logs, IsOpen
<1>2. [state |-> "unused", parts |-> {}] \in Remotes
  BY DEF Remotes
<1>3. UploadTypeOK
  BY <1>1, <1>2, RestingRow, UploadConstantsHold, UploadTypes DEF UploadInit
<1>4. \A u \in Uploaders : RowIsSound(log[u], upper[u])
  BY <1>1, RestingRow DEF RowIsSound
<1> QED
  BY <1>1, <1>3, <1>4 DEF UploadInv, AllNamed

LEMMA UploadStepKeeps ==
  ASSUME UploadInv, [UploadNext]_uploadVars PROVE UploadInv'
<1>1. CASE \E u \in Uploaders : UploadStep(u)
  BY <1>1, MovingKeeps, DropOrphanKeeps, CreateKeeps, UploadPartKeeps, CompleteLooksKeeps,
     CompleteCommitsKeeps, RecordKeeps DEF UploadStep
<1>2. CASE \E u \in Uploaders : CreateUnheard(u) \/ CompleteUnheard(u) \/ Stop(u)
  BY <1>2, CreateUnheardKeeps, CompleteUnheardKeeps, StopKeeps
<1>3. CASE \E id \in UploadIds : Expire(id)
  BY <1>3, ExpireKeeps
<1>4. CASE UNCHANGED uploadVars
  <2>1. UNCHANGED <<object, remote, log, upper, leftOpen, uploadFaults>>
    BY <1>4 DEF uploadVars
  <2> QED
    BY <2>1 DEF UploadInv, UploadTypeOK, AllNamed, RowIsSound, Names, IsOpen, Used
<1> QED
  BY <1>1, <1>2, <1>3, <1>4 DEF UploadNext

\* The journals, the rows' steps in progress and R2's uploads fit together,
\* whatever calls fail, answers are lost and uploads expire.
THEOREM UploadInvariance == UploadSpec => []UploadInv
<1>1. UploadInv /\ [UploadNext]_uploadVars => UploadInv'
  BY UploadStepKeeps
<1> QED
  BY <1>1, UploadInitially, PTL DEF UploadSpec

\* Going on from a journal is sound, and no upload is forgotten while R2 keeps it
\* open: for any number of rows that store the same object (uploadMultipartFile).
THEOREM UploadsGoOn == UploadSpec => []UploadsResume
BY UploadInvariance, UploadSuffices, PTL

------------------------------------------------------------------------------
(* The media of the moments.                                                 *)

\* A result that counts is kept, and a running recovery has still to do only what
\* is not done; what the build goes by was complete.
MediaInv ==
  /\ MediaIsPreserved
  /\ DOMAIN reports = {1, 2}
  /\ \A m \in Media \ Eligible :
       /\ captured[m] \notin {"public_stored", "quarantined_stored"}
       /\ recovered[m] # "quarantined"
  /\ recoverer = [at |-> recoverer.at, pending |-> recoverer.pending, eval |-> recoverer.eval]
  /\ \A m \in recoverer.pending : ~RecoveryTerminal(m)
  /\ builder.at = "rows" => builder.binding.eval.complete

Sources == {"retry_primary", "multipart_original", "hash_alias_original", "legacy_original",
            "thumbnail_derivative", "hls_derivative"}

LEMMA OfferedSeq ==
  ASSUME NEW m, NEW s \in Sources PROVE Offered(m, s) \in Seq(Sources)
BY EmptySeq DEF Offered

\* A row without a source has one placeholder, a row with one has no placeholder.
LEMMA StrategiesOf ==
  ASSUME NEW m
  PROVE  \/ Strategies(m) \in Seq(Sources)
         \/ /\ Strategies(m) = <<Placeholder(m, recPlan[m])>>
            /\ Placeholder(m, recPlan[m]) = "metadata_only" => m \notin Eligible
<1> DEFINE o1 == Offered(m, "retry_primary")
           o2 == o1 \o Offered(m, "multipart_original")
           o3 == o2 \o Offered(m, "hash_alias_original")
           o4 == o3 \o Offered(m, "legacy_original")
           o5 == o4 \o Offered(m, "thumbnail_derivative")
           o6 == o5 \o Offered(m, "hls_derivative")
<1>1. o1 \in Seq(Sources)
  BY OfferedSeq DEF Sources
<1>2. o2 \in Seq(Sources)
  <2> HIDE DEF o1
  <2> QED
    BY <1>1, OfferedSeq, ConcatProperties DEF Sources
<1>3. o3 \in Seq(Sources)
  <2> HIDE DEF o2
  <2> QED
    BY <1>2, OfferedSeq, ConcatProperties DEF Sources
<1>4. o4 \in Seq(Sources)
  <2> HIDE DEF o3
  <2> QED
    BY <1>3, OfferedSeq, ConcatProperties DEF Sources
<1>5. o5 \in Seq(Sources)
  <2> HIDE DEF o4
  <2> QED
    BY <1>4, OfferedSeq, ConcatProperties DEF Sources
<1>6. o6 \in Seq(Sources)
  <2> HIDE DEF o5
  <2> QED
    BY <1>5, OfferedSeq, ConcatProperties DEF Sources
<1>7. Strategies(m) = IF o6 = << >> THEN <<Placeholder(m, recPlan[m])>> ELSE o6
  BY Zenon DEF Strategies
<1>8. Placeholder(m, recPlan[m]) = "metadata_only" => m \notin Eligible
  BY DEF Placeholder
<1> HIDE DEF o6
<1> QED
  BY <1>6, <1>7, <1>8

\* What trying the strategies of a row can come to.
LEMMA OutcomesOf ==
  ASSUME NEW m \in Media, NEW o \in Outcomes(m)
  PROVE  /\ o.result \in Results
         /\ o.result \in {"original_public", "quarantined"} => m \in Eligible
         /\ o.result = "metadata_only" => m \notin Eligible /\ "error" \notin Range(o.failures)
<1> DEFINE s == Strategies(m)
           tried == {i \in 1..Len(s) : s[i] \notin Placeholders \ {"metadata_only"}}
<1>1. CASE \E n \in tried :
             /\ o.result \in IF s[n] = "metadata_only" THEN {"metadata_only"} ELSE Preserved(m, s[n])
             /\ o.failures \in FailuresOf(m, n - 1)
  <2>1. PICK n \in tried :
             /\ o.result \in IF s[n] = "metadata_only" THEN {"metadata_only"} ELSE Preserved(m, s[n])
             /\ o.failures \in FailuresOf(m, n - 1)
    BY <1>1
  <2>2. CASE s[n] # "metadata_only"
    BY <2>1, <2>2 DEF Preserved, Results
  <2>3. CASE s[n] = "metadata_only"
    <3>1. s \notin Seq(Sources)
      <4>1. ASSUME s \in Seq(Sources) PROVE s[n] \in Sources
        BY <4>1, ElementOfSeq
      <4> QED
        BY <2>3, <4>1 DEF Sources
    <3>2. s = <<Placeholder(m, recPlan[m])>>
          /\ (Placeholder(m, recPlan[m]) = "metadata_only" => m \notin Eligible)
      BY <3>1, StrategiesOf
    <3>3. n = 1 /\ m \notin Eligible
      BY <2>3, <3>2
    <3>4. o.failures \in [1..(n - 1) -> {"exhausted", "dns", "error"}]
      BY <2>1 DEF FailuresOf
    <3>5. DOMAIN o.failures = {}
      BY <3>3, <3>4
    <3> QED
      BY <2>1, <2>3, <3>3, <3>5 DEF Range, Results
  <2> QED
    BY <2>2, <2>3
<1>2. CASE \E f : /\ o.result = IF Exhausted(m, f) THEN "metadata_only" ELSE "failed"
                  /\ o.failures = f
  BY <1>2 DEF Exhausted, Results
<1>3. \/ \E n \in tried :
             /\ o.result \in IF s[n] = "metadata_only" THEN {"metadata_only"} ELSE Preserved(m, s[n])
             /\ o.failures \in FailuresOf(m, n - 1)
      \/ \E f : /\ o.result = IF Exhausted(m, f) THEN "metadata_only" ELSE "failed"
                /\ o.failures = f
  <2>1. CASE \E n \in tried : o \in Preservations(m, n)
    <3>1. PICK n \in tried : o \in Preservations(m, n)
      BY <2>1
    <3>2. PICK f \in FailuresOf(m, n - 1) :
            \E r \in IF s[n] = "metadata_only" THEN {"metadata_only"} ELSE Preserved(m, s[n]) :
               o = [result |-> r, failures |-> f]
      BY <3>1 DEF Preservations
    <3> QED
      BY <3>2
  <2>2. CASE o \in Exhaustions(m)
    BY <2>2 DEF Exhaustions
  <2> QED
    BY <2>1, <2>2 DEF Outcomes
<1> QED
  BY <1>1, <1>2, <1>3

LEMMA MediaNumbers ==
  /\ Eligible \subseteq Media
  /\ MaxCaptures \in Nat /\ MaxRecoveries \in Nat /\ MaxReports \in Nat
BY MediaConstants DEF MediaConstants

LEMMA IdleTools ==
  /\ IdleRecoverer = [at |-> IdleRecoverer.at, pending |-> IdleRecoverer.pending,
                      eval |-> IdleRecoverer.eval]
  /\ IdleRecoverer.at = "idle" /\ IdleRecoverer.pending = {}
  /\ IdleBuilder.at = "idle" /\ IdleVerifier.at = "idle" /\ IdleCapturer.at = "idle"
BY DEF IdleRecoverer, IdleBuilder, IdleVerifier, IdleCapturer

LEMMA MediaInitially ==
  ASSUME MediaInit PROVE MediaInv
<1>1. captured \in Manifests /\ recPlan \in Manifests /\ recovered \in [Media -> Results]
  BY DEF MediaInit, Manifests, CaptureStatuses, Results
<1>2. \A p \in {1, 2} : reports[p].no = 0
  BY DEF MediaInit, NoReport
<1>3. MediaTypeOK
  BY <1>1, <1>2, IdleTools, MediaNumbers DEF MediaInit, MediaTypeOK
<1>4. WrittenOffWhenExhausted /\ AcceptedIsStored
  BY DEF MediaInit, WrittenOffWhenExhausted, AcceptedIsStored
<1>5. \A m \in Media : captured[m] = "unattempted" /\ recovered[m] = "none"
  BY DEF MediaInit
<1>6. DOMAIN reports = {1, 2} /\ recoverer = IdleRecoverer /\ builder = IdleBuilder
  BY DEF MediaInit
<1> QED
  BY <1>3, <1>4, <1>5, <1>6, IdleTools DEF MediaInv, MediaIsPreserved

\* The journals and what was built of them stay, whatever happens to the evidence.
LEMMA JournalsStay ==
  ASSUME MediaInv, recPlan' \in Manifests,
         UNCHANGED <<captured, captures, recovered, recoveries, missed, built>>,
         DOMAIN reports' = {1, 2}, \A p \in {1, 2} : reports'[p].no \in 0..MaxReports,
         capturer'.at \in {"idle", "proof"}, verifier'.at \in {"idle", "heads"},
         builder'.at \in {"idle", "rows"},
         builder'.at = "rows" => builder'.binding.eval.complete,
         recoverer' = [at |-> recoverer'.at, pending |-> recoverer'.pending,
                       eval |-> recoverer'.eval],
         recoverer'.at \in {"idle", "rows", "proof"}, recoverer'.pending \subseteq Media,
         \A m \in recoverer'.pending : ~RecoveryTerminal(m)
  PROVE  MediaInv'
<1>1. MediaTypeOK'
  BY DEF MediaInv, MediaIsPreserved, MediaTypeOK
<1>2. WrittenOffWhenExhausted' /\ AcceptedIsStored'
  BY DEF MediaInv, MediaIsPreserved, WrittenOffWhenExhausted, AcceptedIsStored
<1>3. \A m \in recoverer'.pending : ~RecoveryTerminal(m)'
  BY DEF RecoveryTerminal
<1> QED
  BY <1>1, <1>2, <1>3 DEF MediaInv, MediaIsPreserved

LEMMA ToolsNow ==
  ASSUME MediaInv
  PROVE  /\ recPlan \in Manifests /\ captured \in Manifests /\ recovered \in [Media -> Results]
         /\ DOMAIN reports = {1, 2} /\ \A p \in {1, 2} : reports[p].no \in 0..MaxReports
         /\ capturer.at \in {"idle", "proof"} /\ verifier.at \in {"idle", "heads"}
         /\ builder.at \in {"idle", "rows"}
         /\ builder.at = "rows" => builder.binding.eval.complete
         /\ recoverer = [at |-> recoverer.at, pending |-> recoverer.pending,
                         eval |-> recoverer.eval]
         /\ recoverer.at \in {"idle", "rows", "proof"} /\ recoverer.pending \subseteq Media
         /\ \A m \in recoverer.pending : ~RecoveryTerminal(m)
BY DEF MediaInv, MediaIsPreserved, MediaTypeOK

LEMMA CaptureRowKeeps ==
  ASSUME MediaInv, NEW m \in Media, CaptureRow(m) PROVE MediaInv'
<1>1. PICK status \in CaptureOutcomes(m) : captured' = [captured EXCEPT ![m] = status]
  BY DEF CaptureRow
<1>2. /\ captured \in Manifests /\ captures \in 0..MaxCaptures /\ captures < MaxCaptures
      /\ captured[m] \in {"unattempted", "failed", "refused"} /\ captures' = captures + 1
      /\ UNCHANGED <<recPlan, recHead, recovered, recoveries, missed, evidenceVars, toolVars>>
  BY ToolsNow DEF CaptureRow, RetriedByCapture, MediaInv, MediaIsPreserved, MediaTypeOK
<1>3. /\ status \in CaptureStatuses
      /\ m \notin Eligible => status \notin {"public_stored", "quarantined_stored"}
  BY <1>1 DEF CaptureOutcomes, CaptureStatuses, CaptureStored
<1>4. /\ captured' \in Manifests /\ captured'[m] = status
      /\ \A n \in Media : n # m => captured'[n] = captured[n]
  BY <1>1, <1>2, <1>3 DEF Manifests
<1>5. /\ reports' = reports /\ built' = built /\ recoverer' = recoverer /\ builder' = builder
      /\ capturer' = capturer /\ verifier' = verifier
  BY <1>2 DEF evidenceVars, toolVars
<1>6. captures' \in 0..MaxCaptures
  BY <1>2, MediaNumbers
<1>7. MediaTypeOK'
  BY <1>2, <1>4, <1>5, <1>6 DEF MediaInv, MediaIsPreserved, MediaTypeOK
<1>8. WrittenOffWhenExhausted'
  BY <1>2 DEF MediaInv, MediaIsPreserved, WrittenOffWhenExhausted
<1>9. AcceptedIsStored'
  <2>1. \A n \in Media : \A r \in {"public_stored", "private_stored", "source_missing"} :
           captured[n] = r => captured'[n] = r
    BY <1>2, <1>4
  <2> QED
    BY <1>2, <1>5, <2>1, MediaNumbers DEF MediaInv, MediaIsPreserved, AcceptedIsStored
<1>10. \A n \in Media \ Eligible : captured'[n] \notin {"public_stored", "quarantined_stored"}
  BY <1>3, <1>4 DEF MediaInv
<1>11. \A n \in recoverer'.pending : ~RecoveryTerminal(n)'
  BY <1>2, <1>5 DEF MediaInv, RecoveryTerminal
<1> QED
  BY <1>2, <1>5, <1>7, <1>8, <1>9, <1>10, <1>11 DEF MediaInv, MediaIsPreserved

LEMMA RecoverRowKeeps ==
  ASSUME MediaInv, NEW m \in Media, RecoverRow(m) PROVE MediaInv'
<1>1. PICK outcome \in Outcomes(m) :
        /\ recovered' = [recovered EXCEPT ![m] = outcome.result]
        /\ missed' = IF "error" \in Range(outcome.failures)
                     THEN missed \cup {m} ELSE missed \ {m}
  BY DEF RecoverRow
<1>2. /\ recovered \in [Media -> Results] /\ recoveries \in 0..MaxRecoveries
      /\ recoveries < MaxRecoveries /\ missed \subseteq Media
      /\ m \in recoverer.pending /\ recoveries' = recoveries + 1
      /\ recoverer' = [recoverer EXCEPT !.pending = @ \ {m}]
      /\ UNCHANGED <<captured, captures, recPlan, recHead, evidenceVars, capturer, verifier, builder>>
  BY ToolsNow DEF RecoverRow, MediaInv, MediaIsPreserved, MediaTypeOK
<1>3. /\ outcome.result \in Results
      /\ outcome.result \in {"original_public", "quarantined"} => m \in Eligible
      /\ outcome.result = "metadata_only" =>
           m \notin Eligible /\ "error" \notin Range(outcome.failures)
  BY <1>1, OutcomesOf
<1>4. /\ recovered' \in [Media -> Results] /\ recovered'[m] = outcome.result
      /\ \A n \in Media : n # m => recovered'[n] = recovered[n]
  BY <1>1, <1>2, <1>3
<1>5. /\ recoverer' = [at |-> recoverer.at, pending |-> recoverer.pending \ {m},
                       eval |-> recoverer.eval]
      /\ recoverer.pending \subseteq Media /\ recoverer.at \in {"idle", "rows", "proof"}
  <2>1. PICK at, pending, eval : /\ recoverer = [at |-> at, pending |-> pending, eval |-> eval]
                                 /\ at = recoverer.at /\ pending = recoverer.pending
                                 /\ eval = recoverer.eval
    BY ToolsNow
  <2>2. recoverer' = [at |-> at, pending |-> pending \ {m}, eval |-> eval]
    BY <1>2, <2>1
  <2> QED
    BY <2>1, <2>2, ToolsNow
<1>6. /\ reports' = reports /\ built' = built /\ builder' = builder
      /\ capturer' = capturer /\ verifier' = verifier
  BY <1>2 DEF evidenceVars
<1>7. recoveries' \in 0..MaxRecoveries /\ missed' \subseteq Media
      /\ (\A n \in Media : n # m => (n \in missed' <=> n \in missed))
      /\ (outcome.result = "metadata_only" => m \notin missed')
  <2>1. recoveries' \in 0..MaxRecoveries
    BY <1>2, MediaNumbers
  <2>2. CASE "error" \in Range(outcome.failures)
    BY <1>1, <1>2, <1>3, <2>1, <2>2
  <2>3. CASE "error" \notin Range(outcome.failures)
    BY <1>1, <1>2, <2>1, <2>3
  <2> QED
    BY <2>2, <2>3
<1>8. MediaTypeOK'
  <2>1. \A n \in Media : recovered'[n] = "original_public" => n \in Eligible
    BY <1>3, <1>4 DEF MediaInv, MediaIsPreserved, MediaTypeOK
  <2> QED
    BY <1>2, <1>4, <1>5, <1>6, <1>7, <2>1 DEF MediaInv, MediaIsPreserved, MediaTypeOK
<1>9. WrittenOffWhenExhausted'
  BY <1>3, <1>4, <1>7 DEF MediaInv, MediaIsPreserved, WrittenOffWhenExhausted
<1>10. AcceptedIsStored'
  <2>1. ~RecoveryTerminal(m)
    BY <1>2, ToolsNow
  <2>2. m \in Eligible => recovered[m] # "original_public"
    BY <2>1 DEF RecoveryTerminal
  <2>3. m \notin Eligible =>
          recovered[m] \notin {"original_private", "derivative", "metadata_only"}
    BY <2>1 DEF RecoveryTerminal
  <2> QED
    BY <1>2, <1>4, <1>6, <2>2, <2>3, MediaNumbers DEF MediaInv, MediaIsPreserved, AcceptedIsStored
<1>11. \A n \in Media \ Eligible : recovered'[n] # "quarantined"
  BY <1>3, <1>4 DEF MediaInv
<1>12. \A n \in recoverer'.pending : ~RecoveryTerminal(n)'
  BY <1>4, <1>5, ToolsNow DEF RecoveryTerminal
<1>13. recoverer' = [at |-> recoverer'.at, pending |-> recoverer'.pending, eval |-> recoverer'.eval]
  BY <1>5
<1> QED
  BY <1>2, <1>6, <1>8, <1>9, <1>10, <1>11, <1>12, <1>13 DEF MediaInv, MediaIsPreserved

\* Evidence that is complete and is what the journals say has every medium stored
\* or accounted for.
LEMMA CompleteIsStored ==
  ASSUME MediaInv, NEW which, CanEvaluate(which), Evaluation(which).complete
  PROVE  /\ \A m \in Eligible : captured[m] = "public_stored" \/ recovered[m] = "original_public"
         /\ \A m \in Media \ Eligible :
              \/ /\ Evaluation(which).rows[m] = "private_stored"
                 /\ captured[m] = "private_stored" \/ recovered[m] = "original_private"
              \/ /\ Evaluation(which).rows[m] = "source_missing"
                 /\ \/ captured[m] = "source_missing"
                    \/ recovered[m] \in {"derivative", "metadata_only"}
<1>0. Eligible \subseteq Media
  BY MediaNumbers
<1>1. ASSUME NEW m \in Media \ Eligible
      PROVE  /\ captured[m] \notin {"public_stored", "quarantined_stored"}
             /\ recovered[m] \notin {"original_public", "quarantined"}
             /\ captured[m] \in CaptureStatuses
  BY ToolsNow DEF MediaInv, MediaIsPreserved, MediaTypeOK, Manifests
<1>2. CASE which = "capture-only"
  <2>1. /\ Evaluation(which).rows = captured /\ PublicReady(captured)
        /\ \A m \in Media \ Eligible : captured[m] \in CaptureStored \cup {"source_missing"}
    BY <1>2 DEF Evaluation, CaptureEval
  <2> QED
    BY <1>1, <2>1 DEF PublicReady, CaptureStored
<1>3. CASE which # "capture-only"
  <2>1. /\ Evaluation(which).rows = RecoveryRows /\ PublicReady(RecoveryRows)
        /\ \A m \in Media :
              RecoveryRows[m] \notin {"failed", "refused", "oversize", "unattempted"}
    BY <1>3 DEF Evaluation, RecoveryEval
  <2>2. \A m \in Media : RecoveryRows[m] = EffectiveRow(m)
    BY DEF RecoveryRows
  <2>3. ASSUME NEW m \in Eligible
        PROVE  captured[m] = "public_stored" \/ recovered[m] = "original_public"
    <3>1. EffectiveRow(m) = "public_stored"
      BY <1>0, <2>1, <2>2 DEF PublicReady
    <3>2. CASE CaptureTerminal(m)
      BY <3>2 DEF CaptureTerminal
    <3>3. CASE ~CaptureTerminal(m)
      BY <3>1, <3>3 DEF EffectiveRow
    <3> QED
      BY <3>2, <3>3
  <2>4. ASSUME NEW m \in Media \ Eligible
        PROVE  \/ /\ EffectiveRow(m) = "private_stored"
                  /\ captured[m] = "private_stored" \/ recovered[m] = "original_private"
               \/ /\ EffectiveRow(m) = "source_missing"
                  /\ \/ captured[m] = "source_missing"
                     \/ recovered[m] \in {"derivative", "metadata_only"}
    <3>1. EffectiveRow(m) \notin {"failed", "refused", "oversize", "unattempted"}
      BY <2>1, <2>2
    <3>2. CASE CaptureTerminal(m)
      BY <1>1, <3>2 DEF CaptureTerminal, EffectiveRow, CaptureStored
    <3>3. CASE ~CaptureTerminal(m)
      <4>1. captured[m] \notin CaptureStored
        BY <3>3 DEF CaptureTerminal
      <4>2. captured[m] \in {"unattempted", "source_missing", "oversize", "refused", "failed"}
        BY <1>1, <4>1 DEF CaptureStatuses
      <4> QED
        BY <1>1, <3>1, <3>3, <4>1, <4>2 DEF EffectiveRow
    <3> QED
      BY <3>2, <3>3
  <2> QED
    BY <2>1, <2>2, <2>3, <2>4
<1> QED
  BY <1>2, <1>3

LEMMA FinishBuildKeeps ==
  ASSUME MediaInv, FinishBuild PROVE MediaInv'
<1>1. /\ UNCHANGED <<captured, captures, recPlan, recHead, recovered, recoveries, missed>>
      /\ UNCHANGED <<manifest, proof, reports, capturer, recoverer, verifier>>
      /\ builder' = IdleBuilder /\ builder'.at = "idle"
      /\ built' = [kind |-> "built", rows |-> builder.binding.eval.rows]
      /\ builder.at = "rows" /\ StillBound(builder.binding)
  BY IdleTools DEF FinishBuild, journalVars
<1>2. MediaTypeOK' /\ WrittenOffWhenExhausted'
  BY <1>1 DEF MediaInv, MediaIsPreserved, MediaTypeOK, WrittenOffWhenExhausted
<1> DEFINE which == proof.eval.kind
<1>3. /\ CanEvaluate(which) /\ builder.binding.eval = Evaluation(which)
      /\ Evaluation(which).complete
  BY <1>1 DEF StillBound, Attested, MediaInv
<1>4. built'.rows = Evaluation(which).rows
  BY <1>1, <1>3
<1> HIDE DEF which
<1>5. /\ \A m \in Eligible : captured[m] = "public_stored" \/ recovered[m] = "original_public"
      /\ \A m \in Media \ Eligible :
           \/ /\ built'.rows[m] = "private_stored"
              /\ captured[m] = "private_stored" \/ recovered[m] = "original_private"
           \/ /\ built'.rows[m] = "source_missing"
              /\ \/ captured[m] = "source_missing"
                 \/ recovered[m] \in {"derivative", "metadata_only"}
  BY <1>3, <1>4, CompleteIsStored
<1>6. AcceptedIsStored'
  BY <1>1, <1>5 DEF AcceptedIsStored
<1>7. \A m \in recoverer'.pending : ~RecoveryTerminal(m)'
  BY <1>1 DEF MediaInv, RecoveryTerminal
<1> QED
  BY <1>1, <1>2, <1>6, <1>7 DEF MediaInv, MediaIsPreserved

LEMMA CapturerKeeps ==
  ASSUME MediaInv, FinishCapture \/ ProveCapture \/ PlanRecovery PROVE MediaInv'
<1>1. /\ UNCHANGED <<captured, captures, recovered, recoveries, missed, built, reports>>
      /\ UNCHANGED <<recoverer, verifier, builder>> /\ capturer'.at \in {"idle", "proof"}
  BY IdleTools, ToolsNow
     DEF FinishCapture, ProveCapture, PlanRecovery, journalVars, evidenceVars, toolVars
<1>2. recPlan' \in Manifests
  <2>1. CASE UNCHANGED recPlan
    BY <2>1, ToolsNow
  <2>2. CASE PlanRecovery
    BY <2>2, ToolsNow DEF PlanRecovery, Manifests, CaptureStatuses
  <2> QED
    BY <2>1, <2>2 DEF FinishCapture, ProveCapture, journalVars
<1> QED
  BY <1>1, <1>2, ToolsNow, JournalsStay

LEMMA RecovererKeeps ==
  ASSUME MediaInv, StartRecovery \/ Finalize \/ ProveRecovery PROVE MediaInv'
<1>1. /\ UNCHANGED <<captured, captures, recPlan, recovered, recoveries, missed, built, reports>>
      /\ UNCHANGED <<capturer, verifier, builder>>
  BY DEF StartRecovery, Finalize, ProveRecovery, journalVars, evidenceVars
<1>2. \E at \in {"idle", "rows", "proof"}, pending \in SUBSET Media :
         /\ recoverer' = [at |-> at, pending |-> pending, eval |-> recoverer'.eval]
         /\ \A m \in pending : ~RecoveryTerminal(m)
  <2>1. CASE StartRecovery
    <3>1. recoverer' = [at |-> "rows", pending |-> Unresolved, eval |-> None]
      BY <2>1 DEF StartRecovery, IdleRecoverer
    <3>2. Unresolved \subseteq Media /\ \A m \in Unresolved : ~RecoveryTerminal(m)
      BY DEF Unresolved
    <3> QED
      BY <3>1, <3>2
  <2>2. CASE Finalize
    <3>1. recoverer' = [at |-> "proof", pending |-> {}, eval |-> RecoveryEval]
      BY <2>2 DEF Finalize, IdleRecoverer
    <3>2. {} \in SUBSET Media /\ (\A m \in {} : ~RecoveryTerminal(m))
      OBVIOUS
    <3> QED
      BY <3>1, <3>2
  <2>3. CASE ProveRecovery
    <3>1. recoverer' = [at |-> "idle", pending |-> {}, eval |-> None]
      BY <2>3 DEF ProveRecovery, IdleRecoverer
    <3>2. {} \in SUBSET Media /\ (\A m \in {} : ~RecoveryTerminal(m))
      OBVIOUS
    <3> QED
      BY <3>1, <3>2
  <2> QED
    BY <2>1, <2>2, <2>3
<1>3. PICK at \in {"idle", "rows", "proof"}, pending \in SUBSET Media :
         /\ recoverer' = [at |-> at, pending |-> pending, eval |-> recoverer'.eval]
         /\ \A m \in pending : ~RecoveryTerminal(m)
  BY <1>2
<1>4. recoverer'.at = at /\ recoverer'.pending = pending
  BY <1>3
<1>5. /\ recPlan' \in Manifests /\ DOMAIN reports' = {1, 2}
      /\ \A p \in {1, 2} : reports'[p].no \in 0..MaxReports
      /\ capturer'.at \in {"idle", "proof"} /\ verifier'.at \in {"idle", "heads"}
      /\ builder'.at \in {"idle", "rows"}
      /\ builder'.at = "rows" => builder'.binding.eval.complete
  BY <1>1, ToolsNow
<1> QED
  BY <1>1, <1>3, <1>4, <1>5, JournalsStay

LEMMA VerifierKeeps ==
  ASSUME MediaInv, FinishVerify \/ \E pass \in {1, 2} : StartVerify(pass) PROVE MediaInv'
<1>1. /\ UNCHANGED <<captured, captures, recPlan, recovered, recoveries, missed, built>>
      /\ UNCHANGED <<capturer, recoverer, builder>> /\ verifier'.at \in {"idle", "heads"}
  BY IdleTools DEF FinishVerify, StartVerify, journalVars, evidenceVars
<1>2. DOMAIN reports' = {1, 2} /\ \A p \in {1, 2} : reports'[p].no \in 0..MaxReports
  <2>1. CASE UNCHANGED reports
    BY <2>1, ToolsNow
  <2>2. CASE FinishVerify
    <3>1. LatestReport + 1 \in 0..MaxReports
      <4>1. LatestReport \in {reports[1].no, reports[2].no} /\ LatestReport < MaxReports
        BY <2>2 DEF FinishVerify, LatestReport
      <4>2. reports[1].no \in Nat /\ reports[2].no \in Nat /\ MaxReports \in Nat
        BY ToolsNow, MediaNumbers
      <4> QED
        BY <4>1, <4>2
    <3>2. PICK found \in BOOLEAN :
            reports' = [reports EXCEPT ![verifier.pass] =
                          [no |-> LatestReport + 1, prev |-> verifier.prev,
                           binding |-> verifier.binding,
                           complete |-> found /\ verifier.binding.eval.complete]]
      BY <2>2 DEF FinishVerify
    <3>3. ASSUME NEW p \in {1, 2}
          PROVE  reports'[p].no = reports[p].no \/ reports'[p].no = LatestReport + 1
      BY <3>2, ToolsNow
    <3> QED
      BY <3>1, <3>2, <3>3, ToolsNow
  <2> QED
    BY <2>1, <2>2 DEF StartVerify, evidenceVars
<1> QED
  BY <1>1, <1>2, ToolsNow, JournalsStay

LEMMA BuilderKeeps ==
  ASSUME MediaInv, StartBuild \/ EndTool PROVE MediaInv'
<1>1. UNCHANGED <<captured, captures, recPlan, recovered, recoveries, missed, built, reports>>
  BY DEF StartBuild, EndTool, journalVars, evidenceVars
<1>2. CASE StartBuild
  <2>1. /\ UNCHANGED <<capturer, recoverer, verifier>> /\ builder'.at = "rows"
        /\ builder'.binding.eval.complete
    BY <1>2 DEF StartBuild
  <2> QED
    BY <1>1, <2>1, ToolsNow, JournalsStay
<1>3. CASE EndTool
  <2>1. /\ capturer' = capturer \/ capturer'.at = "idle"
        /\ verifier' = verifier \/ verifier'.at = "idle"
        /\ builder' = builder \/ builder'.at = "idle"
        /\ recoverer' = recoverer \/ recoverer' = IdleRecoverer
    BY <1>3, IdleTools DEF EndTool
  <2>2. /\ recoverer' = [at |-> recoverer'.at, pending |-> recoverer'.pending,
                         eval |-> recoverer'.eval]
        /\ recoverer'.at \in {"idle", "rows", "proof"} /\ recoverer'.pending \subseteq Media
        /\ \A m \in recoverer'.pending : ~RecoveryTerminal(m)
    <3>1. CASE recoverer' = recoverer
      BY <3>1, ToolsNow
    <3>2. CASE recoverer' = IdleRecoverer
      BY <3>2, IdleTools
    <3> QED
      BY <2>1, <3>1, <3>2
  <2> QED
    BY <1>1, <2>1, <2>2, ToolsNow, JournalsStay
<1> QED
  BY <1>2, <1>3

LEMMA MediaStepKeeps ==
  ASSUME MediaInv, [MediaNext]_mediaVars PROVE MediaInv'
<1>1. CASE MediaNext
  BY <1>1, CapturerKeeps, RecovererKeeps, VerifierKeeps, BuilderKeeps, FinishBuildKeeps,
     CaptureRowKeeps, RecoverRowKeeps DEF MediaNext
<1>2. CASE UNCHANGED mediaVars
  <2>1. /\ UNCHANGED <<captured, captures, recPlan, recovered, recoveries, missed, built>>
        /\ UNCHANGED <<reports, capturer, recoverer, verifier, builder>>
    BY <1>2 DEF mediaVars, journalVars, evidenceVars, toolVars
  <2> QED
    BY <2>1, ToolsNow, JournalsStay
<1> QED
  BY <1>1, <1>2

\* The media tools keep their invariant, whatever is run again, overlaps or ends
\* between two writes.
THEOREM MediaInvariance == MediaSpec => []MediaInv
<1>1. MediaInv /\ [MediaNext]_mediaVars => MediaInv'
  BY MediaStepKeeps
<1> QED
  BY <1>1, MediaInitially, PTL DEF MediaSpec

\* No medium is written off because a call failed, and what the D1 build accepted
\* is stored, for any number of media, tools and records.
THEOREM MediaStaysPreserved == MediaSpec => []MediaIsPreserved
<1>1. MediaInv => MediaIsPreserved
  BY DEF MediaInv
<1> QED
  BY <1>1, MediaInvariance, PTL

\* A report or a build is made only of evidence that is what the journals say at
\* that moment: the second look at the files before each write.
THEOREM EvidenceStaysCurrent == MediaSpec => EvidenceIsCurrent
<1>1. [MediaNext]_mediaVars =>
        [/\ built' # built => Attested(proof) /\ built'.rows = manifest
         /\ reports' # reports => Attested(proof)]_mediaVars
  <2> SUFFICES ASSUME MediaNext
               PROVE  /\ built' # built => Attested(proof) /\ built'.rows = manifest
                      /\ reports' # reports => Attested(proof)
    BY DEF mediaVars
  <2>1. CASE FinishBuild
    BY <2>1 DEF FinishBuild, StillBound, Attested
  <2>2. CASE FinishVerify
    BY <2>2 DEF FinishVerify, StillBound
  <2>3. CASE FinishCapture \/ ProveCapture \/ PlanRecovery \/ StartRecovery \/ Finalize
             \/ ProveRecovery \/ StartBuild \/ EndTool
    BY <2>3 DEF FinishCapture, ProveCapture, PlanRecovery, StartRecovery, Finalize,
                ProveRecovery, StartBuild, EndTool, evidenceVars
  <2>4. CASE \E m \in Media : CaptureRow(m) \/ RecoverRow(m)
    BY <2>4 DEF CaptureRow, RecoverRow, evidenceVars
  <2>5. CASE \E pass \in {1, 2} : StartVerify(pass)
    BY <2>5 DEF StartVerify, evidenceVars
  <2> QED
    BY <2>1, <2>2, <2>3, <2>4, <2>5 DEF MediaNext
<1> QED
  BY <1>1, PTL DEF MediaSpec, EvidenceIsCurrent
-------------------------------------------------------------------------------
(* The loaders of a built snapshot.                                          *)

Targets == [schema : 0..SchemaFiles, journal : SUBSET Shards, copies : [Shards -> Nat],
            stray : Nat, meta : {"none", "staged", "pending", "ready"}, bound : Nat]
LoadRuns == [todo : Phases, pc : RunSteps, at : Databases(kind) \union {""},
             seen : SUBSET Shards, count : Nat, i : Nat, held : Nat]

AllJournaled == \A d \in Databases(kind) : Journaled(d)

\* A shard is in a target once, and with its marker; a target that serves is complete.
SoundTarget(t) ==
  /\ \A s \in Shards : t.copies[s] = IF s \in t.journal THEN 1 ELSE 0
  /\ t.meta = "ready" => t.journal = Shards
  /\ t.meta = "ready" /\ kind \in {"moments", "collections"} => t.stray = 0
  /\ t.stray <= strays /\ t.bound <= report
  /\ kind # "moments" => t.bound = 0

\* A finalizer may be on its way: the journals of the tools whose finalizer does not check
\* them are complete, and the catalogue comes after the holdings.
MayFinish(d) ==
  /\ kind # "moments"
  /\ kind # "collections" => AllJournaled
  /\ d = "catalog" => db["holdings"].meta = "ready"

FileMayLand(x) ==
  /\ x[1] \in Databases(kind)
  /\ \/ x[2].part = "schema" /\ x[2].n \in 1..SchemaFiles
     \/ x[2].part = "shard" /\ x[2].n \in Shards
     \/ x[2].part = "final" /\ MayFinish(x[1])

\* What the step of a run tells of its phase, and of the targets.
PhaseIsSound(r) ==
  /\ r.pc # "idle" => r.at \in Databases(kind)
  /\ r.pc \in LoadSteps => r.todo = "load"
  /\ r.pc \in {"prepare", "prepared"} => r.i \in 1..SchemaFiles
  /\ r.pc \in {"shard", "marker", "recount"} => r.i > 0
  /\ r.pc \in {"attest", "attest2"} => r.todo \in {"verify", "activate"}
  /\ r.todo = "verify" => kind = "moments"
  /\ r.pc \in BindSteps => kind = "moments" /\ r.todo = "activate"
  /\ r.pc = "attest" /\ kind = "archive" /\ r.at = "holdings" => Journaled("catalog")
  /\ r.pc = "attest2" => kind \in {"moments", "collections"}
  /\ r.pc \in {"finalize", "check"} =>
        kind # "moments" /\ r.todo = "activate" /\ (kind # "collections" => AllJournaled)
  /\ r.pc = "finalize" => MayFinish(r.at)
  /\ kind # "moments" => r.held = 0
  /\ r.held <= report
  /\ r.todo = "done" => /\ r.pc = "idle"
                        /\ \A d \in Databases(kind) : db[d].meta = "ready" /\ db[d].bound = r.held

LoadInv ==
  /\ kind \in Kinds /\ report \in Nat /\ strays \in 0..MaxStrays
  /\ db \in [Databases(kind) -> Targets] /\ loader \in [Loaders -> LoadRuns]
  /\ CatalogServesLast
  /\ \A d \in Databases(kind) : SoundTarget(db[d])
  /\ \A l \in Loaders : PhaseIsSound(loader[l])
  /\ \A x \in late : FileMayLand(x)

\* A step after which the targets have all they had.
TargetsGrow ==
  /\ db' \in [Databases(kind) -> Targets]
  /\ \A d \in Databases(kind) : SoundTarget(db[d])'
  /\ CatalogServesLast'
  /\ \A d \in Databases(kind) :
        /\ db[d].journal \subseteq db'[d].journal
        /\ db[d].meta = "ready" => db'[d].meta = "ready" /\ db'[d].bound = db[d].bound

-------------------------------------------------------------------------------
LEMMA LoadNumbers ==
  /\ Shards = 1..ShardCount /\ ShardCount \in Nat /\ SchemaFiles \in Nat /\ SchemaFiles # 0
  /\ kind \in Kinds => kind \in {"moments", "collections", "archive", "compass"}
BY LoaderAssumption DEF Shards

LEMMA TargetNames ==
  /\ kind = "archive" => Databases(kind) = {"catalog", "holdings"}
  /\ kind # "archive" => Databases(kind) = {kind}
  /\ LoadFirst \in Databases(kind) /\ ActivateFirst \in Databases(kind)
BY DEF Databases, LoadFirst, ActivateFirst

\* The rows of a target that has no shard twice.
LEMMA TargetRows ==
  ASSUME NEW d, \A s \in Shards : db[d].copies[s] \in {0, 1}
  PROVE  /\ Cardinality(RowsOf(d, Shards)) \in Nat
         /\ (\A s \in Shards : db[d].copies[s] = 1) => Cardinality(RowsOf(d, Shards)) = ShardCount
<1> DEFINE f == [s \in Shards |-> <<s, 1>>]
           R == {<<s, 1>> : s \in Shards}
<1>1. \A s \in Shards : {s} \X (1..db[d].copies[s]) = IF db[d].copies[s] = 1 THEN {<<s, 1>>} ELSE {}
  <2> SUFFICES ASSUME NEW s \in Shards
               PROVE  {s} \X (1..db[d].copies[s]) = IF db[d].copies[s] = 1 THEN {<<s, 1>>} ELSE {}
    OBVIOUS
  <2>1. 1..1 = {1} /\ 1..0 = {}
    OBVIOUS
  <2>2. CASE db[d].copies[s] = 1
    BY <2>1, <2>2
  <2>3. CASE db[d].copies[s] = 0
    BY <2>1, <2>3
  <2> QED
    BY <2>2, <2>3
<1>2. RowsOf(d, Shards) \subseteq R
  BY <1>1 DEF RowsOf
<1>3. ASSUME \A s \in Shards : db[d].copies[s] = 1 PROVE RowsOf(d, Shards) = R
  <2>1. RowsOf(d, Shards) = UNION {{<<s, 1>>} : s \in Shards}
    BY <1>1, <1>3 DEF RowsOf
  <2> QED
    BY <2>1
<1>4. IsFiniteSet(Shards) /\ Cardinality(Shards) = ShardCount
  <2>1. 1 \in Int /\ ShardCount \in Int /\ ~(1 > ShardCount) /\ ShardCount - 1 + 1 = ShardCount
    BY LoaderAssumption
  <2> QED
    BY <2>1, FS_Interval DEF Shards
<1>5. ExistsBijection(Shards, R)
  <2>1. \A s, t \in Shards : f[s] = f[t] => s = t
    OBVIOUS
  <2>2. \A x \in R : \E s \in Shards : f[s] = x
    OBVIOUS
  <2>3. f \in [Shards -> R]
    OBVIOUS
  <2> HIDE DEF f, R
  <2>4. f \in Injection(Shards, R)
    BY <2>1, <2>3 DEF Injection, IsInjective
  <2>5. f \in Surjection(Shards, R)
    BY <2>2, <2>3 DEF Surjection
  <2> QED
    BY <2>4, <2>5 DEF Bijection, ExistsBijection
<1> HIDE DEF f, R
<1>6. IsFiniteSet(R) /\ Cardinality(R) = ShardCount
  BY <1>4, <1>5, FS_Bijection
<1> QED
  BY <1>2, <1>3, <1>6, FS_Subset, FS_CardinalityType

LEMMA RowsCounted ==
  ASSUME LoadInv, NEW d \in Databases(kind)
  PROVE  /\ Rows(d) \in Nat
         /\ Journaled(d) /\ Rows(d) = ShardCount => db[d].stray = 0
<1>1. db[d].stray \in Nat /\ \A s \in Shards : db[d].copies[s] = IF s \in db[d].journal THEN 1 ELSE 0
  BY DEF LoadInv, Targets, SoundTarget
<1>2. \A s \in Shards : db[d].copies[s] \in {0, 1}
  BY <1>1
<1>3. Journaled(d) => \A s \in Shards : db[d].copies[s] = 1
  BY <1>1 DEF Journaled
<1>4. Cardinality(RowsOf(d, Shards)) \in Nat
  BY <1>2, TargetRows
<1>5. Journaled(d) => Cardinality(RowsOf(d, Shards)) = ShardCount
  BY <1>2, <1>3, TargetRows
<1> QED
  BY <1>1, <1>4, <1>5, LoaderAssumption DEF Rows

\* Nothing a run or a file relies on goes when the targets grow.
LEMMA PhasesStay ==
  ASSUME LoadInv, TargetsGrow, kind' = kind, report' \in Nat, report <= report'
  PROVE  /\ \A r \in LoadRuns : PhaseIsSound(r) => PhaseIsSound(r)'
         /\ \A x : FileMayLand(x) => FileMayLand(x)'
<1>1. \A d \in Databases(kind) : Journaled(d) => Journaled(d)'
  <2> SUFFICES ASSUME NEW d \in Databases(kind), db[d].journal = Shards PROVE db'[d].journal = Shards
    BY DEF Journaled, Shards
  <2>1. db[d].journal \subseteq db'[d].journal
    BY DEF TargetsGrow
  <2>2. db'[d].journal \in SUBSET Shards
    BY DEF TargetsGrow, Targets
  <2> QED
    BY <2>1, <2>2
<1>2. AllJournaled => AllJournaled'
  BY <1>1 DEF AllJournaled
<1>3. ASSUME NEW d \in Databases(kind), MayFinish(d) PROVE MayFinish(d)'
  <2>1. ASSUME d = "catalog" PROVE db'["holdings"].meta = "ready"
    <3>1. kind = "archive"
      BY <2>1, LoadNumbers DEF Databases, LoadInv
    <3>2. "holdings" \in Databases(kind) /\ db["holdings"].meta = "ready"
      BY <1>3, <2>1, <3>1, TargetNames DEF MayFinish
    <3> QED
      BY <3>2 DEF TargetsGrow
  <2> QED
    BY <1>2, <1>3, <2>1 DEF MayFinish
<1>4. ASSUME NEW x, FileMayLand(x) PROVE FileMayLand(x)'
  BY <1>3, <1>4 DEF FileMayLand, Databases
<1>5. ASSUME NEW r \in LoadRuns, PhaseIsSound(r) PROVE PhaseIsSound(r)'
  <2>1. r.pc = "finalize" => MayFinish(r.at)'
    BY <1>3, <1>5 DEF PhaseIsSound
  <2>2. r.todo = "done" => \A d \in Databases(kind) : db'[d].meta = "ready" /\ db'[d].bound = r.held
    <3> SUFFICES ASSUME r.todo = "done", NEW d \in Databases(kind)
                 PROVE  db'[d].meta = "ready" /\ db'[d].bound = r.held
      OBVIOUS
    <3>1. db[d].meta = "ready" /\ db[d].bound = r.held
      BY <1>5 DEF PhaseIsSound
    <3> QED
      BY <3>1 DEF TargetsGrow
  <2>3. r.held <= report'
    <3>1. r.held <= report /\ r.held \in Nat /\ report \in Nat
      BY <1>5 DEF PhaseIsSound, LoadRuns, LoadInv
    <3> QED
      BY <3>1
  <2>4. r.pc = "attest" /\ kind = "archive" /\ r.at = "holdings" => Journaled("catalog")'
    BY <1>1, <1>5, TargetNames DEF PhaseIsSound
  <2>5. r.pc \in {"finalize", "check"} =>
          kind # "moments" /\ r.todo = "activate" /\ (kind # "collections" => AllJournaled')
    BY <1>2, <1>5 DEF PhaseIsSound
  <2>6. /\ r.pc # "idle" => r.at \in Databases(kind')
        /\ r.pc \in LoadSteps => r.todo = "load"
        /\ r.pc \in {"prepare", "prepared"} => r.i \in 1..SchemaFiles
        /\ r.pc \in {"shard", "marker", "recount"} => r.i > 0
        /\ r.pc \in {"attest", "attest2"} => r.todo \in {"verify", "activate"}
        /\ r.todo = "verify" => kind = "moments"
        /\ r.pc \in BindSteps => kind = "moments" /\ r.todo = "activate"
        /\ r.pc = "attest2" => kind \in {"moments", "collections"}
        /\ kind # "moments" => r.held = 0
        /\ r.todo = "done" => r.pc = "idle"
    BY <1>5 DEF PhaseIsSound
  <2> QED
    BY <2>1, <2>2, <2>3, <2>4, <2>5, <2>6 DEF PhaseIsSound
<1> QED
  BY <1>4, <1>5

\* A step of a run or of an import that was on its way.
LEMMA LoadGoesOn ==
  ASSUME LoadInv, TargetsGrow, kind' = kind, report' \in Nat, report <= report',
         strays' \in 0..MaxStrays,
         loader' \in [Loaders -> LoadRuns],
         \A l \in Loaders : loader'[l] = loader[l] \/ PhaseIsSound(loader[l])',
         \A x \in late' : x \in late \/ FileMayLand(x)'
  PROVE  LoadInv'
<1>1. LoadRuns' = LoadRuns /\ Databases(kind)' = Databases(kind) /\ Targets' = Targets
  BY DEF LoadRuns, Databases, Targets, Shards
<1>2. ASSUME NEW l \in Loaders PROVE PhaseIsSound(loader[l])'
  <2>1. CASE loader'[l] = loader[l]
    <3>1. PICK r : r = loader[l]
      OBVIOUS
    <3>2. r \in LoadRuns /\ PhaseIsSound(r)
      BY <3>1 DEF LoadInv
    <3>3. PhaseIsSound(r)'
      BY <3>2, PhasesStay
    <3> QED
      BY <2>1, <3>1, <3>3 DEF PhaseIsSound
  <2> QED
    BY <2>1
<1>3. ASSUME NEW x \in late' PROVE FileMayLand(x)'
  <2>1. CASE x \in late
    <3>1. FileMayLand(x)
      BY <2>1 DEF LoadInv
    <3> QED
      BY <3>1, PhasesStay
  <2> QED
    BY <2>1
<1>4. kind' \in Kinds
  BY DEF LoadInv
<1> QED
  BY <1>1, <1>2, <1>3, <1>4 DEF LoadInv, TargetsGrow

LEMMA TargetsStay ==
  ASSUME LoadInv, db' = db, kind' = kind, report' \in Nat, report <= report',
         strays' \in Nat, strays <= strays'
  PROVE  TargetsGrow
<1>1. /\ db \in [Databases(kind) -> Targets] /\ CatalogServesLast /\ report \in Nat /\ strays \in Nat
      /\ \A d \in Databases(kind) : SoundTarget(db[d])
  BY LoaderAssumption DEF LoadInv
<1>2. CatalogServesLast'
  BY <1>1 DEF CatalogServesLast
<1>3. ASSUME NEW d \in Databases(kind) PROVE SoundTarget(db[d])'
  <2>1. db[d].stray \in Nat /\ db[d].bound \in Nat
    BY <1>1 DEF Targets
  <2>2. db[d].stray <= strays' /\ db[d].bound <= report'
    BY <1>1, <2>1 DEF SoundTarget
  <2> QED
    BY <1>1, <2>2 DEF SoundTarget
<1> QED
  BY <1>1, <1>2, <1>3 DEF TargetsGrow

\* A run goes on with nothing else done, as most of its steps do.
RunGoesOn(l) == \E r \in LoadRuns : PhaseIsSound(r) /\ loader' = [loader EXCEPT ![l] = r]

LEMMA RunKeeps ==
  ASSUME LoadInv, NEW l \in Loaders, RunGoesOn(l), TargetsGrow \/ db' = db,
         UNCHANGED <<kind, late, strays>>, report' \in {report, report + 1}
  PROVE  LoadInv'
<1>1. report \in Nat /\ report' \in Nat /\ report <= report' /\ strays' \in 0..MaxStrays
      /\ strays' \in Nat /\ strays <= strays'
  BY LoaderAssumption DEF LoadInv
<1>2. TargetsGrow
  BY <1>1, TargetsStay
<1>3. PICK r \in LoadRuns : PhaseIsSound(r) /\ loader' = [loader EXCEPT ![l] = r]
  BY DEF RunGoesOn
<1>4. loader \in [Loaders -> LoadRuns]
  BY DEF LoadInv
<1>5. loader' \in [Loaders -> LoadRuns] /\ loader'[l] = r
      /\ \A k \in Loaders : k # l => loader'[k] = loader[k]
  BY <1>3, <1>4
<1>6. PhaseIsSound(r)'
  BY <1>1, <1>2, <1>3, PhasesStay
<1>7. PhaseIsSound(loader[l])'
  BY <1>5, <1>6 DEF PhaseIsSound
<1> QED
  BY <1>1, <1>2, <1>5, <1>7, LoadGoesOn

\* A phase that fails is due again.
LEMMA FailedRun ==
  ASSUME LoadInv, NEW l \in Loaders, loader[l].pc # "idle", Fail(l)
  PROVE  RunGoesOn(l)
<1>1. loader[l] \in LoadRuns /\ PhaseIsSound(loader[l])
  BY DEF LoadInv
<1>2. PICK r : r = Idle(loader[l].todo)
  OBVIOUS
<1>3. r.todo = loader[l].todo /\ r.pc = "idle" /\ r.held = 0 /\ r.todo # "done"
  BY <1>1, <1>2 DEF Idle, PhaseIsSound
<1>4. r \in LoadRuns
  <2>1. {} \in SUBSET Shards /\ "" \in Databases(kind) \cup {""} /\ loader[l].todo \in Phases
    BY <1>1 DEF LoadRuns
  <2>2. PICK t : t = loader[l].todo
    OBVIOUS
  <2>3. r = [todo |-> t, pc |-> "idle", at |-> "", seen |-> {}, count |-> 0, i |-> 0, held |-> 0]
    BY <1>2, <2>2 DEF Idle
  <2>4. "idle" \in RunSteps
    BY DEF RunSteps
  <2> QED
    BY <2>1, <2>2, <2>3, <2>4 DEF LoadRuns
<1>5. PhaseIsSound(r)
  <2>1. 0 <= report
    BY DEF LoadInv
  <2>2. r.todo = "verify" => kind = "moments"
    BY <1>1, <1>3 DEF PhaseIsSound
  <2> QED
    BY <1>3, <2>1, <2>2 DEF PhaseIsSound, LoadSteps, BindSteps
<1> QED
  BY <1>2, <1>4, <1>5 DEF Fail, Shift, RunGoesOn

LEMMA ThisRun ==
  ASSUME LoadInv, NEW l \in Loaders
  PROVE  loader[l] \in LoadRuns /\ PhaseIsSound(loader[l]) /\ report \in Nat
BY DEF LoadInv

\* A phase that ends well makes the next one due.
LEMMA SucceededRun ==
  ASSUME LoadInv, NEW l \in Loaders, loader[l].pc # "idle", Succeed(l),
         loader[l].todo = "activate" =>
           \A d \in Databases(kind) : db[d].meta = "ready" /\ db[d].bound = loader[l].held
  PROVE  RunGoesOn(l)
<1>1. loader[l] \in LoadRuns /\ PhaseIsSound(loader[l]) /\ report \in Nat
  BY ThisRun
<1>2. PICK r, t, h : /\ t = AfterPhase(loader[l].todo) /\ h = loader[l].held
                     /\ r = [Idle(t) EXCEPT !.held = h]
  OBVIOUS
<1>3. loader[l].todo \in {"load", "verify", "activate"}
  BY <1>1 DEF PhaseIsSound, LoadRuns, Phases
<1>4. /\ t \in {"verify", "activate", "done"}
      /\ t = "verify" => kind = "moments"
      /\ t = "done" => loader[l].todo = "activate"
  BY <1>2, <1>3 DEF AfterPhase
<1>5. r = [todo |-> t, pc |-> "idle", at |-> "", seen |-> {}, count |-> 0, i |-> 0, held |-> h]
  BY <1>2 DEF Idle
<1>6. r \in LoadRuns
  <2>1. {} \in SUBSET Shards /\ "" \in Databases(kind) \cup {""} /\ t \in Phases /\ h \in Nat
    BY <1>1, <1>2, <1>4 DEF LoadRuns, Phases
  <2>2. "idle" \in RunSteps
    BY DEF RunSteps
  <2> QED
    BY <1>5, <2>1, <2>2 DEF LoadRuns
<1>7. PhaseIsSound(r)
  <2>1. r.todo = t /\ r.pc = "idle" /\ r.held = h
    BY <1>5
  <2>2. h <= report /\ (kind # "moments" => h = 0)
    BY <1>1, <1>2 DEF PhaseIsSound
  <2>3. t = "done" => \A d \in Databases(kind) : db[d].meta = "ready" /\ db[d].bound = h
    BY <1>2, <1>4
  <2> QED
    BY <1>4, <2>1, <2>2, <2>3 DEF PhaseIsSound, LoadSteps, BindSteps
<1> QED
  BY <1>2, <1>6, <1>7 DEF Succeed, Shift, RunGoesOn

LEMMA StartPhaseRuns == ASSUME LoadInv, NEW l \in Loaders, StartPhase(l) PROVE RunGoesOn(l)
<1>1. loader[l] \in LoadRuns /\ PhaseIsSound(loader[l]) /\ report \in Nat
  BY ThisRun
<1>2. PICK t, p : /\ t = loader[l].todo
                  /\ p = CASE t = "load" -> "schema"
                           [] t = "activate" /\ kind = "moments" -> "report"
                           [] OTHER -> "attest"
  OBVIOUS
<1>3. PICK r : r = [Idle(t) EXCEPT !.at = LoadFirst, !.pc = p]
  OBVIOUS
<1>4. r = [todo |-> t, pc |-> p, at |-> LoadFirst, seen |-> {}, count |-> 0, i |-> 0, held |-> 0]
  BY <1>3 DEF Idle
<1>5. t \in {"load", "verify", "activate"}
  BY <1>1, <1>2 DEF StartPhase, LoadRuns, Phases
<1>6. /\ p \in {"schema", "report", "attest"}
      /\ p = "schema" => t = "load"
      /\ p = "report" => kind = "moments" /\ t = "activate"
      /\ p = "attest" => t \in {"verify", "activate"}
  BY <1>2, <1>5
<1>7. r \in LoadRuns
  <2>1. {} \in SUBSET Shards /\ LoadFirst \in Databases(kind) \cup {""} /\ t \in Phases /\ p \in RunSteps
    BY <1>5, <1>6, TargetNames DEF Phases, RunSteps, LoadSteps, BindSteps
  <2> QED
    BY <1>4, <2>1 DEF LoadRuns
<1>8. PhaseIsSound(r)
  <2>1. r.todo = t /\ r.pc = p /\ r.at = LoadFirst /\ r.held = 0
    BY <1>4
  <2>2. kind = "archive" => r.at # "holdings"
    BY <2>1 DEF LoadFirst
  <2>3. t = "verify" => kind = "moments"
    BY <1>1, <1>2 DEF PhaseIsSound
  <2> QED
    BY <1>1, <1>5, <1>6, <2>1, <2>2, <2>3, TargetNames DEF PhaseIsSound, LoadSteps, BindSteps
<1>9. loader' = [loader EXCEPT ![l] = r]
  BY <1>2, <1>3 DEF StartPhase, Shift
<1> QED
  BY <1>7, <1>8, <1>9 DEF RunGoesOn

\* A run of the load goes on with the load.
LEMMA LoadRunSteps ==
  ASSUME LoadInv, NEW l \in Loaders, loader[l].pc \in LoadSteps, NEW r \in LoadRuns,
         loader' = [loader EXCEPT ![l] = r],
         r.todo = loader[l].todo, r.held = loader[l].held, r.pc \in LoadSteps,
         r.at \in Databases(kind),
         r.pc \in {"prepare", "prepared"} => r.i \in 1..SchemaFiles,
         r.pc \in {"shard", "marker", "recount"} => r.i > 0
  PROVE  RunGoesOn(l)
<1>1. PhaseIsSound(loader[l]) /\ r.todo = "load"
  BY ThisRun DEF PhaseIsSound
<1>2. PhaseIsSound(r)
  BY <1>1 DEF PhaseIsSound, LoadSteps, BindSteps
<1> QED
  BY <1>2 DEF RunGoesOn

LEMMA ReadSchemaRuns == ASSUME LoadInv, NEW l \in Loaders, ReadSchema(l) PROVE RunGoesOn(l)
<1>1. loader[l] \in LoadRuns /\ PhaseIsSound(loader[l]) /\ loader[l].pc = "schema"
  BY ThisRun DEF ReadSchema, Doing
<1>2. PICK q, n : q = loader[l] /\ n = db[q.at].schema + 1
  OBVIOUS
<1>3. q.at \in Databases(kind) /\ q \in LoadRuns /\ q.pc \in LoadSteps
  BY <1>1, <1>2 DEF PhaseIsSound, LoadSteps
<1>4. \/ loader' = [loader EXCEPT ![l] = [q EXCEPT !.pc = "look"]]
      \/ ~FullSchema(q.at) /\ loader' = [loader EXCEPT ![l] = [q EXCEPT !.pc = "prepare", !.i = n]]
      \/ Fail(l)
  BY <1>2 DEF ReadSchema, On, Shift, Here
<1>5. CASE loader' = [loader EXCEPT ![l] = [q EXCEPT !.pc = "look"]]
  <2>1. PICK r : r = [q EXCEPT !.pc = "look"]
    OBVIOUS
  <2>2. r \in LoadRuns /\ r.pc = "look" /\ r.todo = q.todo /\ r.held = q.held /\ r.at = q.at
    BY <1>3, <2>1 DEF LoadRuns, RunSteps, LoadSteps
  <2> QED
    BY <1>2, <1>3, <1>5, <2>1, <2>2, LoadRunSteps DEF LoadSteps
<1>6. CASE ~FullSchema(q.at) /\ loader' = [loader EXCEPT ![l] = [q EXCEPT !.pc = "prepare", !.i = n]]
  <2>1. PICK r : r = [q EXCEPT !.pc = "prepare", !.i = n]
    OBVIOUS
  <2>2. n \in 1..SchemaFiles /\ n \in Nat
    <3>1. db[q.at].schema \in 0..SchemaFiles
      BY <1>3 DEF LoadInv, Targets
    <3>2. db[q.at].schema # SchemaFiles
      BY <1>6 DEF FullSchema
    <3> QED
      BY <1>2, <3>1, <3>2, LoadNumbers
  <2>3. /\ r \in LoadRuns /\ r.pc = "prepare" /\ r.i = n /\ r.todo = q.todo /\ r.held = q.held
        /\ r.at = q.at
    BY <1>3, <2>1, <2>2 DEF LoadRuns, RunSteps, LoadSteps
  <2> QED
    BY <1>2, <1>3, <1>6, <2>1, <2>2, <2>3, LoadRunSteps DEF LoadSteps
<1>7. CASE Fail(l)
  BY <1>1, <1>7, FailedRun
<1> QED
  BY <1>4, <1>5, <1>6, <1>7

LEMMA PreparedRuns == ASSUME LoadInv, NEW l \in Loaders, Prepared(l) PROVE RunGoesOn(l)
<1>1. loader[l] \in LoadRuns /\ PhaseIsSound(loader[l]) /\ loader[l].pc = "prepared"
  BY ThisRun DEF Prepared, Doing
<1>2. PICK q, n : q = loader[l] /\ n = q.i + 1
  OBVIOUS
<1>3. q.at \in Databases(kind) /\ q \in LoadRuns /\ q.pc \in LoadSteps /\ q.i \in 1..SchemaFiles
  BY <1>1, <1>2 DEF PhaseIsSound, LoadSteps
<1>4. \/ loader' = [loader EXCEPT ![l] = [q EXCEPT !.pc = "look"]]
      \/ q.i < SchemaFiles /\ loader' = [loader EXCEPT ![l] = [q EXCEPT !.pc = "prepare", !.i = n]]
      \/ Fail(l)
  BY <1>2 DEF Prepared, On, Shift, Here, Require
<1>5. CASE loader' = [loader EXCEPT ![l] = [q EXCEPT !.pc = "look"]]
  <2>1. PICK r : r = [q EXCEPT !.pc = "look"]
    OBVIOUS
  <2>2. r \in LoadRuns /\ r.pc = "look" /\ r.todo = q.todo /\ r.held = q.held /\ r.at = q.at
    BY <1>3, <2>1 DEF LoadRuns, RunSteps, LoadSteps
  <2> QED
    BY <1>2, <1>3, <1>5, <2>1, <2>2, LoadRunSteps DEF LoadSteps
<1>6. CASE q.i < SchemaFiles /\ loader' = [loader EXCEPT ![l] = [q EXCEPT !.pc = "prepare", !.i = n]]
  <2>1. PICK r : r = [q EXCEPT !.pc = "prepare", !.i = n]
    OBVIOUS
  <2>2. n \in 1..SchemaFiles /\ n \in Nat
    BY <1>2, <1>3, <1>6, LoadNumbers
  <2>3. /\ r \in LoadRuns /\ r.pc = "prepare" /\ r.i = n /\ r.todo = q.todo /\ r.held = q.held
        /\ r.at = q.at
    BY <1>3, <2>1, <2>2 DEF LoadRuns, RunSteps, LoadSteps
  <2> QED
    BY <1>2, <1>3, <1>6, <2>1, <2>2, <2>3, LoadRunSteps DEF LoadSteps
<1>7. CASE Fail(l)
  BY <1>1, <1>7, FailedRun
<1> QED
  BY <1>4, <1>5, <1>6, <1>7

LEMMA LookRuns == ASSUME LoadInv, NEW l \in Loaders, Look(l) PROVE RunGoesOn(l)
<1>1. loader[l] \in LoadRuns /\ PhaseIsSound(loader[l]) /\ loader[l].pc = "look"
  BY ThisRun DEF Look, Doing
<1>2. PICK q, j, n : q = loader[l] /\ j = db[q.at].journal /\ n = Rows(q.at)
  OBVIOUS
<1>3. q.at \in Databases(kind) /\ q \in LoadRuns /\ q.pc \in LoadSteps
  BY <1>1, <1>2 DEF PhaseIsSound, LoadSteps
<1>4. j \in SUBSET Shards /\ n \in Nat
  BY <1>2, <1>3, RowsCounted DEF LoadInv, Targets
<1>6. \/ loader' = [loader EXCEPT ![l] = [q EXCEPT !.pc = "compare", !.seen = j]]
      \/ loader' = [loader EXCEPT ![l] = [q EXCEPT !.pc = "compare", !.count = n]]
      \/ Fail(l)
  BY <1>2 DEF Look, Shift, Here
<1>7. CASE loader' = [loader EXCEPT ![l] = [q EXCEPT !.pc = "compare", !.seen = j]]
  <2>1. PICK w : w = [q EXCEPT !.pc = "compare", !.seen = j]
    OBVIOUS
  <2>2. w \in LoadRuns /\ w.pc = "compare" /\ w.todo = q.todo /\ w.held = q.held /\ w.at = q.at
    BY <1>3, <1>4, <2>1 DEF LoadRuns, RunSteps, LoadSteps
  <2> QED
    BY <1>2, <1>3, <1>7, <2>1, <2>2, LoadRunSteps DEF LoadSteps
<1>8. CASE loader' = [loader EXCEPT ![l] = [q EXCEPT !.pc = "compare", !.count = n]]
  <2>1. PICK w : w = [q EXCEPT !.pc = "compare", !.count = n]
    OBVIOUS
  <2>2. w \in LoadRuns /\ w.pc = "compare" /\ w.todo = q.todo /\ w.held = q.held /\ w.at = q.at
    BY <1>3, <1>4, <2>1 DEF LoadRuns, RunSteps, LoadSteps
  <2> QED
    BY <1>2, <1>3, <1>8, <2>1, <2>2, LoadRunSteps DEF LoadSteps
<1>9. CASE Fail(l)
  BY <1>1, <1>9, FailedRun
<1> QED
  BY <1>6, <1>7, <1>8, <1>9

LEMMA CompareRuns == ASSUME LoadInv, NEW l \in Loaders, Compare(l) PROVE RunGoesOn(l)
<1>1. loader[l] \in LoadRuns /\ PhaseIsSound(loader[l]) /\ loader[l].pc = "compare"
  BY ThisRun DEF Compare, Doing
<1>2. PICK q, j : q = loader[l] /\ j = db[q.at].journal
  OBVIOUS
<1>3. q.at \in Databases(kind) /\ q \in LoadRuns /\ q.pc \in LoadSteps
  BY <1>1, <1>2 DEF PhaseIsSound, LoadSteps
<1>4. j \in SUBSET Shards
  BY <1>2, <1>3 DEF LoadInv, Targets
<1>5. PICK u : u = [q EXCEPT !.pc = "shard", !.i = 1]
  OBVIOUS
<1>6. /\ u \in LoadRuns /\ u.pc = "shard" /\ u.i = 1 /\ u.todo = q.todo /\ u.held = q.held
      /\ u.at = q.at
  BY <1>3, <1>5 DEF LoadRuns, RunSteps, LoadSteps
<1>7. \/ loader' = [loader EXCEPT ![l] = u]
      \/ loader' = [loader EXCEPT ![l] = [u EXCEPT !.seen = j]]
      \/ Fail(l)
  <2>1. CASE kind = "moments"
    BY <1>2, <1>5, <2>1 DEF Compare, Shift
  <2>2. CASE kind # "moments"
    <3>1. \/ Shift(l, [[loader[l] EXCEPT !.pc = "shard", !.i = 1] EXCEPT !.seen = j])
          \/ Fail(l)
      BY <1>2, <2>2 DEF Compare, Here
    <3> QED
      BY <1>2, <1>5, <3>1 DEF Shift
  <2> QED
    BY <2>1, <2>2
<1>8. CASE loader' = [loader EXCEPT ![l] = u]
  <2>1. u.i > 0 /\ u.pc \in LoadSteps
    BY <1>6 DEF LoadSteps
  <2> QED
    BY <1>2, <1>3, <1>6, <1>8, <2>1, LoadRunSteps
<1>9. CASE loader' = [loader EXCEPT ![l] = [u EXCEPT !.seen = j]]
  <2>1. PICK w : w = [u EXCEPT !.seen = j]
    OBVIOUS
  <2>2. /\ w \in LoadRuns /\ w.pc = "shard" /\ w.i = 1 /\ w.todo = q.todo /\ w.held = q.held
        /\ w.at = q.at
    BY <1>4, <1>6, <2>1 DEF LoadRuns
  <2>3. loader' = [loader EXCEPT ![l] = w] /\ w.i > 0 /\ w.pc \in LoadSteps
    BY <1>9, <2>1, <2>2 DEF LoadSteps
  <2> QED
    BY <1>2, <1>3, <2>2, <2>3, LoadRunSteps
<1>10. CASE Fail(l)
  BY <1>1, <1>10, FailedRun
<1> QED
  BY <1>7, <1>8, <1>9, <1>10

LEMMA NextShardRuns == ASSUME LoadInv, NEW l \in Loaders, NextShard(l) PROVE RunGoesOn(l)
<1>1. loader[l] \in LoadRuns /\ PhaseIsSound(loader[l]) /\ loader[l].pc = "shard"
  BY ThisRun DEF NextShard, Doing
<1>2. PICK q, n : q = loader[l] /\ n = q.i + 1
  OBVIOUS
<1>3. q.at \in Databases(kind) /\ q \in LoadRuns /\ q.pc \in LoadSteps /\ q.i > 0 /\ q.todo = "load"
  BY <1>1, <1>2 DEF PhaseIsSound, LoadSteps
<1>4. \/ loader' = [loader EXCEPT ![l] = [q EXCEPT !.pc = "final"]]
      \/ kind = "archive" /\ loader' = [loader EXCEPT ![l] = [q EXCEPT !.pc = "schema", !.at = "holdings"]]
      \/ loader' = [loader EXCEPT ![l] = [q EXCEPT !.i = n]]
      \/ Succeed(l)
  BY <1>2 DEF NextShard, On, Shift, Here
<1>5. CASE loader' = [loader EXCEPT ![l] = [q EXCEPT !.pc = "final"]]
  <2>1. PICK w : w = [q EXCEPT !.pc = "final"]
    OBVIOUS
  <2>2. w \in LoadRuns /\ w.pc = "final" /\ w.todo = q.todo /\ w.held = q.held /\ w.at = q.at
    BY <1>3, <2>1 DEF LoadRuns, RunSteps, LoadSteps
  <2> QED
    BY <1>2, <1>3, <1>5, <2>1, <2>2, LoadRunSteps DEF LoadSteps
<1>6. CASE kind = "archive" /\ loader' = [loader EXCEPT ![l] = [q EXCEPT !.pc = "schema", !.at = "holdings"]]
  <2>1. PICK w : w = [q EXCEPT !.pc = "schema", !.at = "holdings"]
    OBVIOUS
  <2>2. "holdings" \in Databases(kind)
    BY <1>6, TargetNames
  <2>3. w \in LoadRuns /\ w.pc = "schema" /\ w.todo = q.todo /\ w.held = q.held /\ w.at = "holdings"
    BY <1>3, <2>1, <2>2 DEF LoadRuns, RunSteps, LoadSteps
  <2> QED
    BY <1>2, <1>3, <1>6, <2>1, <2>2, <2>3, LoadRunSteps DEF LoadSteps
<1>7. CASE loader' = [loader EXCEPT ![l] = [q EXCEPT !.i = n]]
  <2>1. PICK w : w = [q EXCEPT !.i = n]
    OBVIOUS
  <2>2. n \in Nat /\ n > 0
    <3>1. q.i \in Nat
      BY <1>3 DEF LoadRuns
    <3> QED
      BY <1>2, <3>1
  <2>3. /\ w \in LoadRuns /\ w.pc = q.pc /\ w.i = n /\ w.todo = q.todo /\ w.held = q.held
        /\ w.at = q.at
    BY <1>3, <2>1, <2>2 DEF LoadRuns
  <2>4. q.pc = "shard"
    BY <1>1, <1>2
  <2>5. loader' = [loader EXCEPT ![l] = w] /\ w.i > 0 /\ w.pc \in LoadSteps
        /\ w.pc \notin {"prepare", "prepared"}
    BY <1>3, <1>7, <2>1, <2>2, <2>3, <2>4
  <2> QED
    BY <1>2, <1>3, <2>3, <2>5, LoadRunSteps
<1>8. CASE Succeed(l)
  BY <1>1, <1>2, <1>3, <1>8, SucceededRun
<1> QED
  BY <1>4, <1>5, <1>6, <1>7, <1>8

LEMMA ReadMarkerRuns == ASSUME LoadInv, NEW l \in Loaders, ReadMarker(l) PROVE RunGoesOn(l)
<1>1. loader[l] \in LoadRuns /\ PhaseIsSound(loader[l]) /\ loader[l].pc = "marker"
  BY ThisRun DEF ReadMarker, Doing
<1>2. PICK q, m, n, p :
        /\ q = loader[l] /\ m = q.seen \union {q.i}
        /\ n = IF kind = "collections" THEN q.i ELSE q.i + 1
        /\ p = IF kind = "collections" THEN "recount" ELSE "shard"
  OBVIOUS
<1>3. q.at \in Databases(kind) /\ q \in LoadRuns /\ q.pc \in LoadSteps /\ q.i > 0 /\ q.i \in Nat
  BY <1>1, <1>2 DEF PhaseIsSound, LoadSteps, LoadRuns
<1>4. \/ /\ q.i \in db[q.at].journal
         /\ loader' = [loader EXCEPT ![l] = [q EXCEPT !.seen = m, !.i = n, !.pc = p]]
      \/ Fail(l)
  BY <1>2 DEF ReadMarker, Shift, Here
<1>5. CASE /\ q.i \in db[q.at].journal
           /\ loader' = [loader EXCEPT ![l] = [q EXCEPT !.seen = m, !.i = n, !.pc = p]]
  <2>1. PICK w : w = [q EXCEPT !.seen = m, !.i = n, !.pc = p]
    OBVIOUS
  <2>2. m \in SUBSET Shards
    <3>1. db[q.at].journal \in SUBSET Shards
      BY <1>3 DEF LoadInv, Targets
    <3> QED
      BY <1>2, <1>3, <1>5, <3>1 DEF LoadRuns
  <2>3. n \in Nat /\ n > 0 /\ p \in {"recount", "shard"} /\ p \in RunSteps /\ p \in LoadSteps
    BY <1>2, <1>3 DEF RunSteps, LoadSteps
  <2>4. /\ w \in LoadRuns /\ w.pc = p /\ w.i = n /\ w.todo = q.todo /\ w.held = q.held
        /\ w.at = q.at
    BY <1>3, <2>1, <2>2, <2>3 DEF LoadRuns
  <2>5. loader' = [loader EXCEPT ![l] = w] /\ w.pc \notin {"prepare", "prepared"}
    BY <1>5, <2>1, <2>3, <2>4
  <2> QED
    BY <1>2, <1>3, <2>3, <2>4, <2>5, LoadRunSteps
<1>6. CASE Fail(l)
  BY <1>1, <1>6, FailedRun
<1> QED
  BY <1>4, <1>5, <1>6

LEMMA RecountRuns == ASSUME LoadInv, NEW l \in Loaders, Recount(l) PROVE RunGoesOn(l)
<1>1. loader[l] \in LoadRuns /\ PhaseIsSound(loader[l]) /\ loader[l].pc = "recount"
  BY ThisRun DEF Recount, Doing
<1>2. PICK q, n : q = loader[l] /\ n = q.i + 1
  OBVIOUS
<1>3. q.at \in Databases(kind) /\ q \in LoadRuns /\ q.pc \in LoadSteps /\ q.i > 0 /\ q.i \in Nat
  BY <1>1, <1>2 DEF PhaseIsSound, LoadSteps, LoadRuns
<1>4. \/ loader' = [loader EXCEPT ![l] = [q EXCEPT !.pc = "shard", !.i = n]]
      \/ Fail(l)
  BY <1>2 DEF Recount, Shift
<1>5. CASE loader' = [loader EXCEPT ![l] = [q EXCEPT !.pc = "shard", !.i = n]]
  <2>1. PICK w : w = [q EXCEPT !.pc = "shard", !.i = n]
    OBVIOUS
  <2>2. n \in Nat /\ n > 0
    BY <1>2, <1>3
  <2>3. /\ w \in LoadRuns /\ w.pc = "shard" /\ w.i = n /\ w.todo = q.todo /\ w.held = q.held
        /\ w.at = q.at
    BY <1>3, <2>1, <2>2 DEF LoadRuns, RunSteps, LoadSteps
  <2>4. loader' = [loader EXCEPT ![l] = w] /\ w.pc \in LoadSteps
    BY <1>5, <2>1, <2>3 DEF LoadSteps
  <2> QED
    BY <1>2, <1>3, <2>2, <2>3, <2>4, LoadRunSteps
<1>6. CASE Fail(l)
  BY <1>1, <1>6, FailedRun
<1> QED
  BY <1>4, <1>5, <1>6

LEMMA InspectRuns == ASSUME LoadInv, NEW l \in Loaders, Inspect(l) PROVE RunGoesOn(l)
<1>1. PhaseIsSound(loader[l]) /\ loader[l].pc = "final" /\ (Succeed(l) \/ Fail(l))
  BY ThisRun DEF Inspect, Doing
<1>2. loader[l].todo = "load"
  BY <1>1 DEF PhaseIsSound, LoadSteps
<1> QED
  BY <1>1, <1>2, FailedRun, SucceededRun

LEMMA AttestRuns == ASSUME LoadInv, NEW l \in Loaders, Attest(l) PROVE RunGoesOn(l)
<1>1. loader[l] \in LoadRuns /\ PhaseIsSound(loader[l]) /\ loader[l].pc = "attest" /\ report \in Nat
  BY ThisRun DEF Attest, Doing
<1>2. PICK q, n, p : /\ q = loader[l] /\ n = Rows(q.at)
                     /\ p = IF kind = "moments" THEN "attest2" ELSE "finalize"
  OBVIOUS
<1>3. /\ q.at \in Databases(kind) /\ q \in LoadRuns /\ q.todo \in {"verify", "activate"}
      /\ q.todo = "verify" => kind = "moments"
      /\ kind # "moments" => q.held = 0
      /\ q.held <= report
      /\ kind = "archive" /\ q.at = "holdings" => Journaled("catalog")
  BY <1>1, <1>2 DEF PhaseIsSound
<1>4. \/ kind = "collections" /\ loader' = [loader EXCEPT ![l] = [q EXCEPT !.pc = "attest2", !.count = n]]
      \/ /\ kind = "archive" /\ q.at = "catalog" /\ Journaled("catalog")
         /\ loader' = [loader EXCEPT ![l] = [q EXCEPT !.at = "holdings"]]
      \/ /\ kind # "collections" /\ ~(kind = "archive" /\ q.at = "catalog") /\ Journaled(q.at)
         /\ loader' = [loader EXCEPT ![l] = [q EXCEPT !.pc = p, !.at = ActivateFirst]]
      \/ Fail(l)
  BY <1>2 DEF Attest, Shift, Here
<1>5. CASE kind = "collections" /\ loader' = [loader EXCEPT ![l] = [q EXCEPT !.pc = "attest2", !.count = n]]
  <2>1. PICK w : w = [q EXCEPT !.pc = "attest2", !.count = n]
    OBVIOUS
  <2>2. n \in Nat
    BY <1>2, <1>3, RowsCounted
  <2>3. w \in LoadRuns /\ w.pc = "attest2" /\ w.todo = q.todo /\ w.held = q.held /\ w.at = q.at
    BY <1>3, <2>1, <2>2 DEF LoadRuns, RunSteps
  <2>4. PhaseIsSound(w)
    BY <1>3, <1>5, <2>3 DEF PhaseIsSound, LoadSteps, BindSteps
  <2> QED
    BY <1>5, <2>1, <2>3, <2>4 DEF RunGoesOn
<1>6. CASE /\ kind = "archive" /\ q.at = "catalog" /\ Journaled("catalog")
           /\ loader' = [loader EXCEPT ![l] = [q EXCEPT !.at = "holdings"]]
  <2>1. PICK w : w = [q EXCEPT !.at = "holdings"]
    OBVIOUS
  <2>2. "holdings" \in Databases(kind) /\ q.pc = "attest"
    BY <1>1, <1>2, <1>6, TargetNames
  <2>3. w \in LoadRuns /\ w.pc = "attest" /\ w.todo = q.todo /\ w.held = q.held /\ w.at = "holdings"
    BY <1>3, <2>1, <2>2 DEF LoadRuns
  <2>4. PhaseIsSound(w)
    BY <1>3, <1>6, <2>2, <2>3 DEF PhaseIsSound, LoadSteps, BindSteps
  <2> QED
    BY <1>6, <2>1, <2>3, <2>4 DEF RunGoesOn
<1>7. CASE /\ kind # "collections" /\ ~(kind = "archive" /\ q.at = "catalog") /\ Journaled(q.at)
           /\ loader' = [loader EXCEPT ![l] = [q EXCEPT !.pc = p, !.at = ActivateFirst]]
  <2>1. PICK w, a : a = ActivateFirst /\ w = [q EXCEPT !.pc = p, !.at = a]
    OBVIOUS
  <2>2. a \in Databases(kind) /\ a # "catalog"
    <3>1. kind \in {"moments", "archive", "compass"}
      BY <1>7, LoadNumbers DEF LoadInv
    <3> QED
      BY <2>1, <3>1, TargetNames DEF ActivateFirst
  <2>3. p \in RunSteps /\ p \in {"attest2", "finalize"} /\ (p = "attest2" <=> kind = "moments")
    BY <1>2 DEF RunSteps
  <2>4. w \in LoadRuns /\ w.pc = p /\ w.todo = q.todo /\ w.held = q.held /\ w.at = a
    BY <1>3, <2>1, <2>2, <2>3 DEF LoadRuns
  <2>5. AllJournaled
    <3>1. CASE kind = "archive"
      <4>1. q.at = "holdings" /\ Databases(kind) = {"catalog", "holdings"}
        BY <1>3, <1>7, <3>1, TargetNames
      <4> QED
        BY <1>3, <1>7, <3>1, <4>1 DEF AllJournaled
    <3>2. CASE kind # "archive"
      BY <1>3, <1>7, <3>2, TargetNames DEF AllJournaled
    <3> QED
      BY <3>1, <3>2
  <2>6. PhaseIsSound(w)
    <3>1. CASE p = "attest2"
      BY <1>3, <2>2, <2>3, <2>4, <3>1 DEF PhaseIsSound, LoadSteps, BindSteps
    <3>2. CASE p = "finalize"
      <4>1. kind # "moments" /\ q.todo = "activate"
        BY <1>3, <2>3, <3>2
      <4>2. MayFinish(a)
        BY <2>2, <2>5, <4>1 DEF MayFinish
      <4> QED
        BY <1>3, <2>2, <2>4, <2>5, <3>2, <4>1, <4>2 DEF PhaseIsSound, LoadSteps, BindSteps
    <3> QED
      BY <2>3, <3>1, <3>2
  <2>7. loader' = [loader EXCEPT ![l] = w]
    BY <1>7, <2>1
  <2> QED
    BY <2>4, <2>6, <2>7 DEF RunGoesOn
<1>8. CASE Fail(l)
  BY <1>1, <1>8, FailedRun
<1> QED
  BY <1>4, <1>5, <1>6, <1>7, <1>8

LEMMA Attest2Runs ==
  ASSUME LoadInv, NEW l \in Loaders, Attest2(l)
  PROVE  RunGoesOn(l) /\ report' \in {report, report + 1}
<1>1. loader[l] \in LoadRuns /\ PhaseIsSound(loader[l]) /\ loader[l].pc = "attest2" /\ report \in Nat
  BY ThisRun DEF Attest2, Doing
<1>2. PICK q : q = loader[l]
  OBVIOUS
<1>3. /\ q.at \in Databases(kind) /\ q \in LoadRuns /\ q.todo \in {"verify", "activate"}
      /\ q.todo = "verify" => kind = "moments"
      /\ kind # "moments" => q.held = 0
      /\ q.held <= report
  BY <1>1, <1>2 DEF PhaseIsSound
<1>4. \/ /\ kind = "collections" /\ Journaled(q.at)
         /\ loader' = [loader EXCEPT ![l] = [q EXCEPT !.pc = "finalize"]]
      \/ Fail(l)
      \/ kind = "moments" /\ q.todo = "verify" /\ Succeed(l)
      \/ /\ kind = "moments" /\ q.todo = "activate"
         /\ loader' = [loader EXCEPT ![l] = [q EXCEPT !.pc = "pend"]]
  BY <1>2, <1>3 DEF Attest2, Require, On, Shift, Here
<1>5. report' \in {report, report + 1}
  BY DEF Attest2
<1>6. CASE /\ kind = "collections" /\ Journaled(q.at)
           /\ loader' = [loader EXCEPT ![l] = [q EXCEPT !.pc = "finalize"]]
  <2>1. PICK w : w = [q EXCEPT !.pc = "finalize"]
    OBVIOUS
  <2>2. w \in LoadRuns /\ w.pc = "finalize" /\ w.todo = q.todo /\ w.held = q.held /\ w.at = q.at
    BY <1>3, <2>1 DEF LoadRuns, RunSteps
  <2>3. q.at # "catalog" /\ q.todo = "activate" /\ MayFinish(q.at)
    BY <1>3, <1>6, TargetNames DEF MayFinish
  <2>4. PhaseIsSound(w)
    BY <1>3, <1>6, <2>2, <2>3 DEF PhaseIsSound, LoadSteps, BindSteps
  <2> QED
    BY <1>5, <1>6, <2>1, <2>2, <2>4 DEF RunGoesOn
<1>7. CASE Fail(l)
  BY <1>1, <1>5, <1>7, FailedRun
<1>8. CASE kind = "moments" /\ q.todo = "verify" /\ Succeed(l)
  BY <1>1, <1>2, <1>5, <1>8, SucceededRun
<1>9. CASE /\ kind = "moments" /\ q.todo = "activate"
           /\ loader' = [loader EXCEPT ![l] = [q EXCEPT !.pc = "pend"]]
  <2>1. PICK w : w = [q EXCEPT !.pc = "pend"]
    OBVIOUS
  <2>2. w \in LoadRuns /\ w.pc = "pend" /\ w.todo = q.todo /\ w.held = q.held /\ w.at = q.at
    BY <1>3, <2>1 DEF LoadRuns, RunSteps, BindSteps
  <2>3. PhaseIsSound(w)
    BY <1>3, <1>9, <2>2 DEF PhaseIsSound, LoadSteps, BindSteps
  <2> QED
    BY <1>5, <1>9, <2>1, <2>2, <2>3 DEF RunGoesOn
<1> QED
  BY <1>4, <1>6, <1>7, <1>8, <1>9

LEMMA ReadReportRuns == ASSUME LoadInv, NEW l \in Loaders, ReadReport(l) PROVE RunGoesOn(l)
<1>1. loader[l] \in LoadRuns /\ PhaseIsSound(loader[l]) /\ loader[l].pc = "report" /\ report \in Nat
  BY ThisRun DEF ReadReport, Doing
<1>2. PICK q : q = loader[l]
  OBVIOUS
<1>3. /\ q.at \in Databases(kind) /\ q \in LoadRuns /\ kind = "moments" /\ q.todo = "activate"
      /\ report <= report
  BY <1>1, <1>2 DEF PhaseIsSound, BindSteps
<1>4. \/ loader' = [loader EXCEPT ![l] = [q EXCEPT !.held = report, !.pc = "attest"]]
      \/ /\ db[q.at].meta = "ready" /\ db[q.at].bound = report
         /\ loader' = [loader EXCEPT ![l] = [Idle("done") EXCEPT !.held = report]]
      \/ Fail(l)
  BY <1>2 DEF ReadReport, Shift, Here
<1>5. CASE loader' = [loader EXCEPT ![l] = [q EXCEPT !.held = report, !.pc = "attest"]]
  <2>1. PICK w, n : n = report /\ w = [q EXCEPT !.held = n, !.pc = "attest"]
    OBVIOUS
  <2>2. w \in LoadRuns /\ w.pc = "attest" /\ w.todo = q.todo /\ w.held = report /\ w.at = q.at
    BY <1>1, <1>3, <2>1 DEF LoadRuns, RunSteps
  <2>3. PhaseIsSound(w)
    BY <1>3, <2>2 DEF PhaseIsSound, LoadSteps, BindSteps
  <2> QED
    BY <1>5, <2>1, <2>2, <2>3 DEF RunGoesOn
<1>6. CASE /\ db[q.at].meta = "ready" /\ db[q.at].bound = report
           /\ loader' = [loader EXCEPT ![l] = [Idle("done") EXCEPT !.held = report]]
  <2>1. PICK w, n : n = report /\ w = [Idle("done") EXCEPT !.held = n]
    OBVIOUS
  <2>2. w = [todo |-> "done", pc |-> "idle", at |-> "", seen |-> {}, count |-> 0, i |-> 0, held |-> n]
    BY <2>1 DEF Idle
  <2>3. w \in LoadRuns
    <3>1. {} \in SUBSET Shards /\ "" \in Databases(kind) \cup {""} /\ n \in Nat
      BY <1>1, <2>1
    <3> QED
      BY <2>2, <3>1 DEF LoadRuns, RunSteps, Phases
  <2>4. w.todo = "done" /\ w.pc = "idle" /\ w.held = report
    <3>1. n = report
      BY <2>1
    <3>2. w.todo = "done" /\ w.pc = "idle" /\ w.held = n
      BY <2>2
    <3> QED
      BY <3>1, <3>2
  <2>5. \A d \in Databases(kind) : db[d].meta = "ready" /\ db[d].bound = report
    BY <1>3, <1>6, TargetNames
  <2>6. PhaseIsSound(w)
    BY <1>3, <2>4, <2>5 DEF PhaseIsSound, LoadSteps, BindSteps
  <2> QED
    BY <1>6, <2>1, <2>3, <2>6 DEF RunGoesOn
<1>7. CASE Fail(l)
  BY <1>1, <1>7, FailedRun
<1> QED
  BY <1>4, <1>5, <1>6, <1>7

\* A run of the activation of Moments goes on with it.
LEMMA BindRunSteps ==
  ASSUME LoadInv, NEW l \in Loaders, loader[l].pc \in BindSteps, NEW p \in BindSteps, On(l, p)
  PROVE  RunGoesOn(l)
<1>1. loader[l] \in LoadRuns /\ PhaseIsSound(loader[l])
  BY ThisRun
<1>2. PICK q, w : q = loader[l] /\ w = [q EXCEPT !.pc = p]
  OBVIOUS
<1>3. /\ q.at \in Databases(kind) /\ q \in LoadRuns /\ kind = "moments" /\ q.todo = "activate"
      /\ q.held <= report
  BY <1>1, <1>2 DEF PhaseIsSound, BindSteps
<1>4. w \in LoadRuns /\ w.pc = p /\ w.todo = q.todo /\ w.held = q.held /\ w.at = q.at
  <2>1. p \in RunSteps
    BY DEF RunSteps
  <2> QED
    BY <1>2, <1>3, <2>1 DEF LoadRuns
<1>5. PhaseIsSound(w)
  <2>1. p \in {"report", "pend", "bound", "flip", "flipped"}
    BY DEF BindSteps
  <2> QED
    BY <1>3, <1>4, <2>1 DEF PhaseIsSound, LoadSteps
<1> QED
  BY <1>2, <1>4, <1>5 DEF On, Shift, RunGoesOn

LEMMA ReadBindingRuns == ASSUME LoadInv, NEW l \in Loaders, ReadBinding(l) PROVE RunGoesOn(l)
<1>1. loader[l].pc = "bound" /\ (On(l, "flip") \/ Fail(l))
  BY DEF ReadBinding, Doing, Require
<1> QED
  BY <1>1, BindRunSteps, FailedRun DEF BindSteps

LEMMA FlippedRuns == ASSUME LoadInv, NEW l \in Loaders, Flipped(l) PROVE RunGoesOn(l)
<1>1. loader[l] \in LoadRuns /\ PhaseIsSound(loader[l]) /\ loader[l].pc = "flipped"
  BY ThisRun DEF Flipped, Doing
<1>2. kind = "moments" /\ loader[l].at \in Databases(kind)
  BY <1>1 DEF PhaseIsSound, BindSteps
<1>3. \/ Succeed(l) /\ db[loader[l].at].meta = "ready" /\ db[loader[l].at].bound = loader[l].held
      \/ Fail(l)
  BY DEF Flipped, Here
<1>4. CASE Succeed(l) /\ db[loader[l].at].meta = "ready" /\ db[loader[l].at].bound = loader[l].held
  <2>1. \A d \in Databases(kind) : db[d].meta = "ready" /\ db[d].bound = loader[l].held
    BY <1>2, <1>4, TargetNames
  <2> QED
    BY <1>1, <1>4, <2>1, SucceededRun
<1>5. CASE Fail(l)
  BY <1>1, <1>5, FailedRun
<1> QED
  BY <1>3, <1>4, <1>5

LEMMA PassesRuns == ASSUME LoadInv, NEW l \in Loaders, Passes(l) PROVE RunGoesOn(l)
<1>1. loader[l] \in LoadRuns /\ PhaseIsSound(loader[l]) /\ loader[l].pc = "finalize"
  BY ThisRun DEF Passes, Doing
<1>2. PICK q, w : q = loader[l] /\ w = [q EXCEPT !.pc = "check"]
  OBVIOUS
<1>3. w \in LoadRuns /\ w.pc = "check" /\ w.todo = q.todo /\ w.held = q.held /\ w.at = q.at
  BY <1>1, <1>2 DEF LoadRuns, RunSteps
<1>4. PhaseIsSound(w)
  BY <1>1, <1>2, <1>3 DEF PhaseIsSound, LoadSteps, BindSteps
<1> QED
  BY <1>2, <1>3, <1>4 DEF Passes, On, Shift, RunGoesOn

LEMMA CheckRuns == ASSUME LoadInv, NEW l \in Loaders, Check(l) PROVE RunGoesOn(l)
<1>1. loader[l] \in LoadRuns /\ PhaseIsSound(loader[l]) /\ loader[l].pc = "check"
  BY ThisRun DEF Check, Doing
<1>2. PICK q : q = loader[l]
  OBVIOUS
<1>3. /\ q.at \in Databases(kind) /\ q \in LoadRuns /\ q.todo = "activate" /\ kind # "moments"
      /\ q.held = 0 /\ q.held <= report /\ (kind # "collections" => AllJournaled)
  BY <1>1, <1>2 DEF PhaseIsSound
<1>4. \/ /\ kind = "archive" /\ q.at = "holdings" /\ db[q.at].meta = "ready"
         /\ loader' = [loader EXCEPT ![l] = [q EXCEPT !.pc = "finalize", !.at = "catalog"]]
      \/ db[q.at].meta = "ready" /\ ~(kind = "archive" /\ q.at = "holdings") /\ Succeed(l)
      \/ Fail(l)
  BY <1>2 DEF Check, Shift, Here
<1>5. CASE /\ kind = "archive" /\ q.at = "holdings" /\ db[q.at].meta = "ready"
           /\ loader' = [loader EXCEPT ![l] = [q EXCEPT !.pc = "finalize", !.at = "catalog"]]
  <2>1. PICK w : w = [q EXCEPT !.pc = "finalize", !.at = "catalog"]
    OBVIOUS
  <2>2. "catalog" \in Databases(kind)
    BY <1>5, TargetNames
  <2>3. w \in LoadRuns /\ w.pc = "finalize" /\ w.todo = q.todo /\ w.held = q.held /\ w.at = "catalog"
    BY <1>3, <2>1, <2>2 DEF LoadRuns, RunSteps
  <2>4. MayFinish("catalog")
    BY <1>3, <1>5 DEF MayFinish
  <2>5. PhaseIsSound(w)
    BY <1>3, <2>2, <2>3, <2>4 DEF PhaseIsSound, LoadSteps, BindSteps
  <2> QED
    BY <1>5, <2>1, <2>3, <2>5 DEF RunGoesOn
<1>6. CASE db[q.at].meta = "ready" /\ ~(kind = "archive" /\ q.at = "holdings") /\ Succeed(l)
  <2>1. \A d \in Databases(kind) : db[d].meta = "ready"
    <3>1. CASE kind = "archive"
      <4>1. Databases(kind) = {"catalog", "holdings"} /\ q.at = "catalog"
        BY <1>3, <1>6, <3>1, TargetNames
      <4>2. db["catalog"].meta = "ready" /\ db["holdings"].meta = "ready"
        BY <1>6, <3>1, <4>1 DEF LoadInv, CatalogServesLast
      <4> QED
        BY <4>1, <4>2
    <3>2. CASE kind # "archive"
      BY <1>3, <1>6, <3>2, TargetNames
    <3> QED
      BY <3>1, <3>2
  <2>2. \A d \in Databases(kind) : db[d].bound = 0
    BY <1>3 DEF LoadInv, SoundTarget
  <2> QED
    BY <1>1, <1>2, <1>3, <1>6, <2>1, <2>2, SucceededRun
<1>7. CASE Fail(l)
  BY <1>1, <1>7, FailedRun
<1> QED
  BY <1>4, <1>5, <1>6, <1>7

\* One target changes, and what it had stays.
LEMMA TargetChanges ==
  ASSUME LoadInv, NEW d \in Databases(kind), NEW t \in Targets, db' = [db EXCEPT ![d] = t],
         kind' = kind, report' = report, strays' \in Nat, strays <= strays',
         SoundTarget(t)', db[d].journal \subseteq t.journal,
         db[d].meta = "ready" => t.meta = "ready" /\ t.bound = db[d].bound,
         d = "catalog" /\ t.meta = "ready" => db["holdings"].meta = "ready"
  PROVE  TargetsGrow
<1>1. /\ db \in [Databases(kind) -> Targets] /\ CatalogServesLast /\ report \in Nat /\ strays \in Nat
      /\ \A e \in Databases(kind) : SoundTarget(db[e])
  BY LoaderAssumption DEF LoadInv
<1>2. /\ db' \in [Databases(kind) -> Targets] /\ db'[d] = t
      /\ \A e \in Databases(kind) : e # d => db'[e] = db[e]
  BY <1>1
<1>3. ASSUME NEW e \in Databases(kind) PROVE SoundTarget(db[e])'
  <2>1. CASE e = d
    BY <1>2, <2>1 DEF SoundTarget
  <2>2. CASE e # d
    <3>1. db'[e] = db[e] /\ SoundTarget(db[e]) /\ db[e].stray \in Nat
      BY <1>1, <1>2, <2>2 DEF Targets
    <3>2. db[e].stray <= strays'
      BY <1>1, <3>1 DEF SoundTarget
    <3> QED
      BY <3>1, <3>2 DEF SoundTarget
  <2> QED
    BY <2>1, <2>2
<1>4. CatalogServesLast'
  <2> SUFFICES ASSUME kind = "archive", db'["catalog"].meta = "ready"
               PROVE  db'["holdings"].meta = "ready"
    BY DEF CatalogServesLast
  <2>1. Databases(kind) = {"catalog", "holdings"}
    BY TargetNames
  <2>2. db["holdings"].meta = "ready"
    <3>1. CASE d = "catalog"
      BY <1>2, <3>1
    <3>2. CASE d # "catalog"
      BY <1>1, <1>2, <2>1, <3>2 DEF CatalogServesLast
    <3> QED
      BY <3>1, <3>2
  <2> QED
    BY <1>2, <2>1, <2>2
<1>5. ASSUME NEW e \in Databases(kind)
      PROVE  /\ db[e].journal \subseteq db'[e].journal
             /\ db[e].meta = "ready" => db'[e].meta = "ready" /\ db'[e].bound = db[e].bound
  BY <1>2
<1> QED
  BY <1>2, <1>3, <1>4, <1>5 DEF TargetsGrow

\* A file that lands leaves a target that is sound: a shard goes in once, and a finalizer
\* finds the journal complete.
LEMMA FileLands ==
  ASSUME LoadInv, NEW d \in Databases(kind), NEW file, FileMayLand(<<d, file>>), Accepts(d, file),
         db' = [db EXCEPT ![d] = Imported(d, file)], UNCHANGED <<kind, report, strays>>
  PROVE  TargetsGrow
<1>1. PICK o, t, n : o = db[d] /\ t = Imported(d, file) /\ n = file.n
  OBVIOUS
<1>2. o \in Targets /\ SoundTarget(o) /\ strays \in Nat
  BY <1>1, LoaderAssumption DEF LoadInv
<1>3. db' = [db EXCEPT ![d] = t]
  BY <1>1
<1>4. ASSUME NEW u \in Targets, SoundTarget(u), u = t, o.journal \subseteq u.journal,
             o.meta = "ready" => u.meta = "ready" /\ u.bound = o.bound,
             d = "catalog" /\ u.meta = "ready" => db["holdings"].meta = "ready"
      PROVE  TargetsGrow
  <2>1. SoundTarget(u)'
    BY <1>4 DEF SoundTarget, Shards
  <2>2. strays' \in Nat /\ strays <= strays'
    BY <1>2
  <2> QED
    BY <1>1, <1>3, <1>4, <2>1, <2>2, TargetChanges
<1>5. o.meta = "ready" /\ d = "catalog" => db["holdings"].meta = "ready"
  <2>1. d = "catalog" => kind = "archive"
    BY LoadNumbers DEF Databases, LoadInv
  <2> QED
    BY <1>1, <2>1 DEF LoadInv, CatalogServesLast
<1>6. CASE file.part = "schema" /\ n \in 1..SchemaFiles
  <2>1. t = [o EXCEPT !.schema = n]
    BY <1>1, <1>6 DEF Imported
  <2>2. n \in 0..SchemaFiles
    BY <1>6, LoadNumbers
  <2>3. t \in Targets
    BY <1>2, <2>1, <2>2 DEF Targets
  <2>4. /\ t.journal = o.journal /\ t.copies = o.copies /\ t.stray = o.stray /\ t.meta = o.meta
        /\ t.bound = o.bound
    BY <1>2, <2>1 DEF Targets
  <2>5. SoundTarget(t)
    BY <1>2, <2>4 DEF SoundTarget
  <2> QED
    BY <1>4, <1>5, <2>3, <2>4, <2>5
<1>7. CASE file.part = "shard" /\ n \in Shards
  <2>1. TakesShard(d, n)
    BY <1>1, <1>7 DEF Accepts
  <2>2. n \notin o.journal /\ o.meta # "ready" /\ o.copies[n] = 0 /\ o.copies \in [Shards -> Nat]
    <3>1. n \notin o.journal
      BY <1>1, <2>1 DEF TakesShard
    <3>2. o.meta # "ready"
      BY <1>2, <1>7, <3>1 DEF SoundTarget
    <3> QED
      BY <1>2, <1>7, <3>1, <3>2 DEF SoundTarget, Targets
  <2>3. PICK j, c, m : /\ j = o.journal \cup {n} /\ c = [o.copies EXCEPT ![n] = 1]
                       /\ m = IF kind = "moments" /\ n = ShardCount THEN "staged" ELSE o.meta
    OBVIOUS
  <2>4. t = [o EXCEPT !.journal = j, !.copies = c, !.meta = m]
    <3>1. t = [db[d] EXCEPT !.journal = @ \cup {n}, !.copies[n] = @ + 1,
                            !.meta = IF kind = "moments" /\ n = ShardCount THEN "staged" ELSE @]
      BY <1>1, <1>7 DEF Imported
    <3>2. [o.copies EXCEPT ![n] = @ + 1] = c
      BY <2>2, <2>3
    <3> QED
      BY <1>1, <1>2, <2>3, <3>1, <3>2 DEF Targets
  <2>5. j \in SUBSET Shards /\ c \in [Shards -> Nat] /\ m \in {"none", "staged", "pending"}
        /\ m \in {"none", "staged", "pending", "ready"}
    BY <1>2, <1>7, <2>2, <2>3 DEF Targets
  <2>6. t \in Targets
    BY <1>2, <2>4, <2>5 DEF Targets
  <2>7. t.journal = j /\ t.copies = c /\ t.stray = o.stray /\ t.meta = m /\ t.bound = o.bound
    BY <1>2, <2>4 DEF Targets
  <2>8. \A s \in Shards : c[s] = IF s \in j THEN 1 ELSE 0
    BY <1>2, <1>7, <2>2, <2>3 DEF SoundTarget
  <2>9. SoundTarget(t)
    BY <1>2, <2>5, <2>7, <2>8 DEF SoundTarget
  <2>10. o.journal \subseteq t.journal /\ t.meta # "ready"
    BY <2>3, <2>5, <2>7
  <2> QED
    BY <1>4, <2>2, <2>6, <2>9, <2>10
<1>8. CASE file.part = "final" /\ MayFinish(d)
  <2>1. CASE ~FinalGuard(d)
    <3>1. t = o
      BY <1>1, <1>8, <2>1 DEF Imported
    <3> QED
      BY <1>2, <1>4, <1>5, <3>1
  <2>2. CASE FinalGuard(d)
    <3>1. t = [o EXCEPT !.meta = "ready"]
      BY <1>1, <1>8, <2>2 DEF Imported
    <3>2. t \in Targets
      BY <1>2, <3>1 DEF Targets
    <3>3. /\ t.journal = o.journal /\ t.copies = o.copies /\ t.stray = o.stray
          /\ t.meta = "ready" /\ t.bound = o.bound
      BY <1>2, <3>1 DEF Targets
    <3>4. kind # "moments" /\ o.journal = Shards
      BY <1>1, <1>8, <2>2 DEF MayFinish, FinalGuard, AllJournaled, Journaled
    <3>5. kind = "collections" => o.stray = 0
      BY <1>1, <2>2, RowsCounted DEF FinalGuard
    <3>6. SoundTarget(t)
      BY <1>2, <3>3, <3>4, <3>5 DEF SoundTarget
    <3>7. d = "catalog" => db["holdings"].meta = "ready"
      BY <1>8 DEF MayFinish
    <3> QED
      BY <1>4, <3>2, <3>3, <3>6, <3>7
  <2> QED
    BY <2>1, <2>2
<1> QED
  BY <1>1, <1>6, <1>7, <1>8 DEF FileMayLand

\* The binding and the flip of Moments: a target that is flipped is complete.
LEMMA BindGrows == ASSUME LoadInv, NEW l \in Loaders, Bind(l), UNCHANGED <<kind, strays>>
                   PROVE  RunGoesOn(l) /\ (TargetsGrow \/ db' = db)
<1>1. loader[l] \in LoadRuns /\ PhaseIsSound(loader[l]) /\ loader[l].pc = "pend" /\ report \in Nat
  BY ThisRun DEF Bind, Doing
<1>2. RunGoesOn(l)
  BY <1>1, BindRunSteps DEF Bind, BindSteps
<1>3. PICK d, h, o : d = loader[l].at /\ h = loader[l].held /\ o = db[d]
  OBVIOUS
<1>4. d \in Databases(kind) /\ h \in Nat /\ h <= report /\ kind = "moments"
  BY <1>1, <1>3 DEF PhaseIsSound, BindSteps, LoadRuns
<1>5. o \in Targets /\ SoundTarget(o) /\ strays \in Nat /\ db \in [Databases(kind) -> Targets]
  BY <1>3, <1>4, LoaderAssumption DEF LoadInv
<1>6. ASSUME db # db' PROVE TargetsGrow
  <2>1. o.meta = "staged" /\ db' = [db EXCEPT ![d].meta = "pending", ![d].bound = h]
    BY <1>3, <1>6 DEF Bind, Here
  <2>2. PICK t : t = [o EXCEPT !.meta = "pending", !.bound = h]
    OBVIOUS
  <2>3. db' = [db EXCEPT ![d] = t]
    BY <1>3, <1>4, <1>5, <2>1, <2>2
  <2>4. /\ t \in Targets /\ t.journal = o.journal /\ t.copies = o.copies /\ t.stray = o.stray
        /\ t.meta = "pending" /\ t.bound = h
    BY <1>4, <1>5, <2>2 DEF Targets
  <2>5. SoundTarget(t)
    BY <1>4, <1>5, <2>4 DEF SoundTarget
  <2>6. SoundTarget(t)' /\ report' = report
    BY <2>5 DEF SoundTarget, Shards, Bind
  <2>7. /\ strays' \in Nat /\ strays <= strays' /\ db[d].journal \subseteq t.journal
        /\ db[d].meta # "ready" /\ t.meta # "ready"
    BY <1>3, <1>5, <2>1, <2>4
  <2> QED
    BY <1>4, <2>3, <2>4, <2>6, <2>7, TargetChanges
<1> QED
  BY <1>2, <1>6

LEMMA FlipGrows == ASSUME LoadInv, NEW l \in Loaders, Flip(l), UNCHANGED <<kind, strays>>
                   PROVE  RunGoesOn(l) /\ (TargetsGrow \/ db' = db)
<1>1. loader[l] \in LoadRuns /\ PhaseIsSound(loader[l]) /\ loader[l].pc = "flip" /\ report \in Nat
  BY ThisRun DEF Flip, Doing
<1>2. RunGoesOn(l)
  BY <1>1, BindRunSteps DEF Flip, BindSteps
<1>3. PICK d, o : d = loader[l].at /\ o = db[d]
  OBVIOUS
<1>4. d \in Databases(kind) /\ kind = "moments"
  BY <1>1, <1>3 DEF PhaseIsSound, BindSteps
<1>5. o \in Targets /\ SoundTarget(o) /\ strays \in Nat /\ db \in [Databases(kind) -> Targets]
  BY <1>3, <1>4, LoaderAssumption DEF LoadInv
<1>6. ASSUME db # db' PROVE TargetsGrow
  <2>1. ActivationGuard(d) /\ db' = [db EXCEPT ![d].meta = "ready"]
    BY <1>3, <1>6 DEF Flip, Here
  <2>2. PICK t : t = [o EXCEPT !.meta = "ready"]
    OBVIOUS
  <2>3. db' = [db EXCEPT ![d] = t]
    BY <1>3, <1>4, <1>5, <2>1, <2>2
  <2>4. /\ t \in Targets /\ t.journal = o.journal /\ t.copies = o.copies /\ t.stray = o.stray
        /\ t.meta = "ready" /\ t.bound = o.bound
    BY <1>5, <2>2 DEF Targets
  <2>5. o.journal = Shards /\ o.stray = 0 /\ o.meta = "pending"
    BY <1>3, <1>4, <2>1, RowsCounted DEF ActivationGuard, Journaled
  <2>6. SoundTarget(t)
    BY <1>4, <1>5, <2>4, <2>5 DEF SoundTarget
  <2>7. SoundTarget(t)' /\ report' = report
    BY <2>6 DEF SoundTarget, Shards, Flip
  <2>8. /\ strays' \in Nat /\ strays <= strays' /\ db[d].journal \subseteq t.journal
        /\ db[d].meta # "ready" /\ d # "catalog"
    BY <1>3, <1>4, <1>5, <2>4, <2>5, TargetNames
  <2> QED
    BY <1>4, <2>3, <2>4, <2>7, <2>8, TargetChanges
<1> QED
  BY <1>2, <1>6

\* What a run sends may land: now, or after the run is gone.
LEMMA SentMayLand ==
  ASSUME LoadInv, NEW l \in Loaders, NEW file \in Sends(l)
  PROVE  /\ Here(l) \in Databases(kind) /\ FileMayLand(<<Here(l), file>>)
         /\ loader[l].pc \in {"prepare", "shard", "finalize"}
         /\ file.part = "schema" <=> loader[l].pc = "prepare"
         /\ file.part = "shard" <=> loader[l].pc = "shard"
<1>1. PICK q : q = loader[l]
  OBVIOUS
<1>2. q \in LoadRuns /\ PhaseIsSound(q)
  BY <1>1, ThisRun
<1>3. \/ q.pc = "prepare" /\ file = [part |-> "schema", n |-> q.i]
      \/ q.pc = "shard" /\ ~PastLast(l) /\ file = [part |-> "shard", n |-> q.i]
      \/ q.pc = "finalize" /\ file = [part |-> "final", n |-> 0]
  <2>1. CASE q.pc = "prepare"
    BY <1>1, <2>1 DEF Sends, Doing
  <2>2. CASE q.pc = "shard"
    BY <1>1, <2>2 DEF Sends, Doing
  <2>3. CASE q.pc = "finalize"
    BY <1>1, <2>3 DEF Sends, Doing
  <2>4. CASE q.pc \notin {"prepare", "shard", "finalize"}
    BY <1>1, <2>4 DEF Sends, Doing
  <2> QED
    BY <2>1, <2>2, <2>3, <2>4
<1>4. q.at \in Databases(kind)
  BY <1>2, <1>3 DEF PhaseIsSound
<1>5. CASE q.pc = "prepare" /\ file = [part |-> "schema", n |-> q.i]
  <2>1. q.i \in 1..SchemaFiles
    BY <1>2, <1>5 DEF PhaseIsSound
  <2> QED
    BY <1>1, <1>4, <1>5, <2>1 DEF FileMayLand, Here
<1>6. CASE q.pc = "shard" /\ ~PastLast(l) /\ file = [part |-> "shard", n |-> q.i]
  <2>1. q.i > 0 /\ q.i \in Nat /\ ~(q.i > ShardCount)
    BY <1>1, <1>2, <1>6 DEF PhaseIsSound, PastLast, LoadRuns
  <2>2. q.i \in Shards
    BY <2>1, LoadNumbers
  <2> QED
    BY <1>1, <1>4, <1>6, <2>2 DEF FileMayLand, Here
<1>7. CASE q.pc = "finalize" /\ file = [part |-> "final", n |-> 0]
  <2>1. MayFinish(q.at)
    BY <1>2, <1>7 DEF PhaseIsSound
  <2> QED
    BY <1>1, <1>4, <1>7, <2>1 DEF FileMayLand, Here
<1> QED
  BY <1>3, <1>5, <1>6, <1>7

LEMMA ImportGrows == ASSUME LoadInv, NEW l \in Loaders, Import(l), UNCHANGED <<kind, strays>>
                     PROVE  RunGoesOn(l) /\ (TargetsGrow \/ db' = db)
<1>1. PICK file \in Sends(l) :
        IF Accepts(Here(l), file)
        THEN /\ db' = [db EXCEPT ![Here(l)] = Imported(Here(l), file)]
             /\ On(l, ReadBack(file))
        ELSE Fail(l) /\ UNCHANGED db
  BY DEF Import
<1>2. /\ Here(l) \in Databases(kind) /\ FileMayLand(<<Here(l), file>>)
      /\ loader[l].pc \in {"prepare", "shard", "finalize"}
      /\ file.part = "schema" <=> loader[l].pc = "prepare"
      /\ file.part = "shard" <=> loader[l].pc = "shard"
  BY SentMayLand
<1>3. CASE ~Accepts(Here(l), file)
  BY <1>1, <1>2, <1>3, FailedRun
<1>4. CASE Accepts(Here(l), file)
  <2>1. TargetsGrow
    BY <1>1, <1>2, <1>4, FileLands DEF Import
  <2>2. PICK q, p, w : q = loader[l] /\ p = ReadBack(file) /\ w = [q EXCEPT !.pc = p]
    OBVIOUS
  <2>3. q \in LoadRuns /\ PhaseIsSound(q)
    BY <2>2, ThisRun
  <2>4. \/ q.pc = "prepare" /\ p = "prepared"
        \/ q.pc = "shard" /\ p = "marker"
        \/ q.pc = "finalize" /\ p = "check"
    BY <1>2, <2>2 DEF ReadBack
  <2>5. w \in LoadRuns /\ w.pc = p /\ w.todo = q.todo /\ w.held = q.held /\ w.at = q.at /\ w.i = q.i
    <3>1. p \in RunSteps
      BY <2>4 DEF RunSteps, LoadSteps
    <3> QED
      BY <2>2, <2>3, <3>1 DEF LoadRuns
  <2>6. PhaseIsSound(w)
    <3>1. q.pc # "idle" /\ q.at \in Databases(kind)
      BY <2>3, <2>4 DEF PhaseIsSound
    <3>2. CASE q.pc = "finalize" /\ p = "check"
      BY <2>3, <2>5, <3>1, <3>2 DEF PhaseIsSound, LoadSteps, BindSteps
    <3>3. CASE q.pc = "prepare" /\ p = "prepared"
      BY <2>3, <2>5, <3>1, <3>3 DEF PhaseIsSound, LoadSteps, BindSteps
    <3>4. CASE q.pc = "shard" /\ p = "marker"
      BY <2>3, <2>5, <3>1, <3>4 DEF PhaseIsSound, LoadSteps, BindSteps
    <3> QED
      BY <2>4, <3>2, <3>3, <3>4
  <2>7. loader' = [loader EXCEPT ![l] = w]
    BY <1>1, <1>4, <2>2 DEF On, Shift
  <2> QED
    BY <2>1, <2>5, <2>6, <2>7 DEF RunGoesOn
<1> QED
  BY <1>3, <1>4

LEMMA LoaderStepKeeps == ASSUME LoadInv, NEW l \in Loaders, LoaderStep(l) PROVE LoadInv'
<1>1. UNCHANGED <<kind, late, strays>>
  BY DEF LoaderStep
<1>2. ASSUME RunGoesOn(l), TargetsGrow \/ db' = db, report' = report PROVE LoadInv'
  <2>1. report' \in {report, report + 1}
    BY <1>2
  <2> QED
    BY <1>1, <1>2, <2>1, RunKeeps
<1>3. CASE StartPhase(l)
  BY <1>2, <1>3, StartPhaseRuns DEF StartPhase
<1>4. CASE ReadSchema(l)
  BY <1>2, <1>4, ReadSchemaRuns DEF ReadSchema
<1>5. CASE Prepared(l)
  BY <1>2, <1>5, PreparedRuns DEF Prepared
<1>6. CASE Look(l)
  BY <1>2, <1>6, LookRuns DEF Look
<1>7. CASE Compare(l)
  BY <1>2, <1>7, CompareRuns DEF Compare
<1>8. CASE NextShard(l)
  BY <1>2, <1>8, NextShardRuns DEF NextShard
<1>9. CASE ReadMarker(l)
  BY <1>2, <1>9, ReadMarkerRuns DEF ReadMarker
<1>10. CASE Recount(l)
  BY <1>2, <1>10, RecountRuns DEF Recount
<1>11. CASE Inspect(l)
  BY <1>2, <1>11, InspectRuns DEF Inspect
<1>12. CASE Attest(l)
  BY <1>2, <1>12, AttestRuns DEF Attest
<1>13. CASE Attest2(l)
  <2>1. db' = db
    BY <1>13 DEF Attest2
  <2> QED
    BY <1>1, <1>13, <2>1, Attest2Runs, RunKeeps
<1>14. CASE ReadReport(l)
  BY <1>2, <1>14, ReadReportRuns DEF ReadReport
<1>15. CASE Bind(l)
  BY <1>1, <1>2, <1>15, BindGrows DEF Bind
<1>16. CASE ReadBinding(l)
  BY <1>2, <1>16, ReadBindingRuns DEF ReadBinding
<1>17. CASE Flip(l)
  BY <1>1, <1>2, <1>17, FlipGrows DEF Flip
<1>18. CASE Flipped(l)
  BY <1>2, <1>18, FlippedRuns DEF Flipped
<1>19. CASE Passes(l)
  BY <1>2, <1>19, PassesRuns DEF Passes
<1>20. CASE Check(l)
  BY <1>2, <1>20, CheckRuns DEF Check
<1>21. CASE Import(l)
  BY <1>1, <1>2, <1>21, ImportGrows DEF Import
<1> QED
  BY <1>3, <1>4, <1>5, <1>6, <1>7, <1>8, <1>9, <1>10, <1>11, <1>12, <1>13, <1>14, <1>15, <1>16,
     <1>17, <1>18, <1>19, <1>20, <1>21 DEF LoaderStep

LEMMA KillKeeps == ASSUME LoadInv, NEW l \in Loaders, Kill(l) PROVE LoadInv'
<1>1. RunGoesOn(l) /\ UNCHANGED <<kind, db, report, strays>>
  BY FailedRun DEF Kill, Doing
<1>2. report \in Nat /\ strays \in 0..MaxStrays /\ strays \in Nat
  BY LoaderAssumption DEF LoadInv
<1>3. TargetsGrow
  BY <1>1, <1>2, TargetsStay
<1>4. PICK r \in LoadRuns : PhaseIsSound(r) /\ loader' = [loader EXCEPT ![l] = r]
  BY <1>1 DEF RunGoesOn
<1>5. loader \in [Loaders -> LoadRuns]
  BY DEF LoadInv
<1>6. loader' \in [Loaders -> LoadRuns] /\ loader'[l] = r
      /\ \A k \in Loaders : k # l => loader'[k] = loader[k]
  BY <1>4, <1>5
<1>7. PhaseIsSound(r)'
  BY <1>1, <1>2, <1>3, <1>4, PhasesStay
<1>8. PhaseIsSound(loader[l])'
  BY <1>6, <1>7 DEF PhaseIsSound
<1>9. ASSUME NEW x \in late' PROVE x \in late \/ FileMayLand(x)'
  <2>1. CASE late' = late
    BY <2>1
  <2>2. CASE \E file \in Sends(l) : late' = late \cup {<<Here(l), file>>}
    <3>1. PICK file \in Sends(l) : late' = late \cup {<<Here(l), file>>}
      BY <2>2
    <3>2. PICK y : y = <<Here(l), file>>
      OBVIOUS
    <3>3. FileMayLand(y)
      BY <3>2, SentMayLand
    <3>4. FileMayLand(y)'
      BY <1>1, <1>2, <1>3, <3>3, PhasesStay
    <3>5. x \in late \/ x = y
      BY <3>1, <3>2
    <3> QED
      BY <3>4, <3>5
  <2> QED
    BY <2>1, <2>2 DEF Kill
<1> QED
  BY <1>1, <1>2, <1>3, <1>6, <1>8, <1>9, LoadGoesOn

LEMMA LateImportKeeps == ASSUME LoadInv, LateImport PROVE LoadInv'
<1>1. PICK x \in late : /\ late' = late \ {x}
                        /\ db' = IF Accepts(x[1], x[2])
                                 THEN [db EXCEPT ![x[1]] = Imported(x[1], x[2])] ELSE db
  BY DEF LateImport
<1>2. UNCHANGED <<kind, loader, report, strays>>
  BY DEF LateImport
<1>3. report \in Nat /\ strays \in 0..MaxStrays /\ strays \in Nat /\ loader \in [Loaders -> LoadRuns]
  BY LoaderAssumption DEF LoadInv
<1>4. TargetsGrow
  <2>1. CASE Accepts(x[1], x[2])
    <3>1. FileMayLand(x)
      BY DEF LoadInv
    <3>2. PICK d, file : d = x[1] /\ file = x[2]
      OBVIOUS
    <3>3. d \in Databases(kind) /\ FileMayLand(<<d, file>>)
      BY <3>1, <3>2 DEF FileMayLand
    <3>4. Accepts(d, file) /\ db' = [db EXCEPT ![d] = Imported(d, file)]
      BY <1>1, <2>1, <3>2
    <3> QED
      BY <1>2, <3>3, <3>4, FileLands
  <2>2. CASE ~Accepts(x[1], x[2])
    BY <1>1, <1>2, <1>3, <2>2, TargetsStay
  <2> QED
    BY <2>1, <2>2
<1>5. loader' \in [Loaders -> LoadRuns] /\ \A l \in Loaders : loader'[l] = loader[l]
  BY <1>2, <1>3
<1> QED
  BY <1>1, <1>2, <1>3, <1>4, <1>5, LoadGoesOn

LEMMA StrayKeeps == ASSUME LoadInv, NEW d \in DOMAIN db, Stray(d) PROVE LoadInv'
<1>1. UNCHANGED <<kind, loader, report, late>> /\ strays' = strays + 1 /\ strays < MaxStrays
      /\ db[d].meta # "ready"
  BY DEF Stray
<1>2. /\ report \in Nat /\ strays \in 0..MaxStrays /\ strays \in Nat /\ d \in Databases(kind)
      /\ loader \in [Loaders -> LoadRuns] /\ db \in [Databases(kind) -> Targets]
  BY LoaderAssumption DEF LoadInv
<1>3. strays' \in 0..MaxStrays /\ strays' \in Nat /\ strays <= strays'
  BY <1>1, <1>2, LoaderAssumption
<1>4. PICK o, n, t : o = db[d] /\ n = o.stray + 1 /\ t = [o EXCEPT !.stray = n]
  OBVIOUS
<1>5. o \in Targets /\ SoundTarget(o) /\ o.stray \in Nat /\ n \in Nat
  BY <1>2, <1>4 DEF LoadInv, Targets
<1>6. db' = [db EXCEPT ![d] = t]
  BY <1>2, <1>4 DEF Stray
<1>7. /\ t \in Targets /\ t.journal = o.journal /\ t.copies = o.copies /\ t.stray = n
      /\ t.meta = o.meta /\ t.bound = o.bound
  BY <1>4, <1>5 DEF Targets
<1>8. n <= strays + 1
  BY <1>2, <1>4, <1>5 DEF SoundTarget
<1>9. SoundTarget(t)'
  BY <1>1, <1>4, <1>5, <1>7, <1>8 DEF SoundTarget, Shards
<1>10. TargetsGrow
  <2>1. db[d].journal \subseteq t.journal /\ t.meta # "ready"
    BY <1>1, <1>4, <1>7
  <2> QED
    BY <1>1, <1>2, <1>3, <1>6, <1>7, <1>9, <2>1, TargetChanges
<1>11. loader' \in [Loaders -> LoadRuns] /\ \A l \in Loaders : loader'[l] = loader[l]
  BY <1>1, <1>2
<1> QED
  BY <1>1, <1>2, <1>3, <1>10, <1>11, LoadGoesOn

LEMMA LoadStepKeeps == ASSUME LoadInv, [LoadNext]_loadVars PROVE LoadInv'
<1>1. CASE UNCHANGED loadVars
  <2>1. /\ report \in Nat /\ strays \in 0..MaxStrays /\ strays \in Nat
        /\ loader \in [Loaders -> LoadRuns] /\ UNCHANGED <<kind, db, loader, report, late, strays>>
    BY <1>1, LoaderAssumption DEF LoadInv, loadVars
  <2>2. TargetsGrow
    BY <2>1, TargetsStay
  <2> QED
    BY <2>1, <2>2, LoadGoesOn
<1>2. CASE LoadNext
  BY <1>2, LoaderStepKeeps, KillKeeps, LateImportKeeps, StrayKeeps DEF LoadNext
<1> QED
  BY <1>1, <1>2

LEMMA LoadInitially == ASSUME LoadInit PROVE LoadInv
<1>1. /\ kind \in Kinds /\ report = 0 /\ late = {} /\ strays = 0
      /\ db = [d \in Databases(kind) |->
                  [schema |-> IF Migrated(kind) THEN SchemaFiles ELSE 0,
                   journal |-> {}, copies |-> [s \in Shards |-> 0], stray |-> 0,
                   meta |-> "none", bound |-> 0]]
      /\ loader = [l \in Loaders |-> Idle("load")]
  BY DEF LoadInit
<1>2. 0 \in Nat /\ 0 \in 0..MaxStrays /\ 0 <= 0
  BY LoaderAssumption
<1>3. PICK n, c, t : /\ n = IF Migrated(kind) THEN SchemaFiles ELSE 0
                     /\ c = [s \in Shards |-> 0]
                     /\ t = [schema |-> n, journal |-> {}, copies |-> c, stray |-> 0,
                             meta |-> "none", bound |-> 0]
  OBVIOUS
<1>4. n \in 0..SchemaFiles /\ c \in [Shards -> Nat] /\ {} \in SUBSET Shards
  BY <1>3, LoadNumbers
<1>5. t \in Targets
  BY <1>3, <1>4 DEF Targets
<1>6. SoundTarget(t)
  BY <1>1, <1>3, <1>4 DEF SoundTarget
<1>7. \A d \in Databases(kind) : db[d] = t
  BY <1>1, <1>3
<1>8. db \in [Databases(kind) -> Targets] /\ \A d \in Databases(kind) : SoundTarget(db[d])
  <2>1. db = [d \in Databases(kind) |-> t]
    BY <1>1, <1>3
  <2> QED
    BY <1>5, <1>6, <1>7, <2>1
<1>9. PICK r : r = Idle("load")
  OBVIOUS
<1>10. r \in LoadRuns
  <2>1. "idle" \in RunSteps /\ "load" \in Phases /\ {} \in SUBSET Shards
        /\ "" \in Databases(kind) \cup {""}
    BY DEF RunSteps, Phases
  <2> QED
    BY <1>2, <1>9, <2>1 DEF Idle, LoadRuns
<1>11. PhaseIsSound(r)
  <2>1. r.pc = "idle" /\ r.todo = "load" /\ r.held = 0
    BY <1>9 DEF Idle
  <2> QED
    BY <1>1, <1>2, <2>1 DEF PhaseIsSound, LoadSteps, BindSteps
<1>12. loader \in [Loaders -> LoadRuns] /\ \A l \in Loaders : PhaseIsSound(loader[l])
  <2>1. loader = [l \in Loaders |-> r]
    BY <1>1, <1>9
  <2> QED
    BY <1>10, <1>11, <2>1
<1>13. CatalogServesLast
  <2> SUFFICES ASSUME kind = "archive" PROVE db["catalog"].meta # "ready"
    BY DEF CatalogServesLast
  <2>1. db["catalog"] = t
    BY <1>7, TargetNames
  <2> QED
    BY <1>3, <2>1
<1> QED
  BY <1>1, <1>2, <1>8, <1>12, <1>13 DEF LoadInv

LEMMA LoadSuffices == ASSUME LoadInv PROVE TargetsAreSound
<1>1. /\ kind \in Kinds /\ db \in [Databases(kind) -> Targets] /\ loader \in [Loaders -> LoadRuns]
      /\ report \in Nat /\ strays \in 0..MaxStrays /\ strays \in Nat
  BY LoaderAssumption DEF LoadInv
<1>2. DOMAIN db = Databases(kind)
  BY <1>1
<1>3. ASSUME NEW d \in Databases(kind)
      PROVE  db[d] \in [schema : 0..SchemaFiles, journal : SUBSET Shards, copies : [Shards -> Nat],
                        stray : 0..strays, meta : {"none", "staged", "pending", "ready"},
                        bound : 0..report]
  <2>1. PICK o : o = db[d]
    OBVIOUS
  <2>2. o \in Targets /\ SoundTarget(o)
    BY <1>1, <2>1 DEF LoadInv
  <2>3. o.stray \in 0..strays /\ o.bound \in 0..report
    BY <1>1, <2>2 DEF Targets, SoundTarget
  <2> QED
    BY <2>1, <2>2, <2>3 DEF Targets
<1>4. ASSUME NEW l \in Loaders
      PROVE  loader[l] \in [todo : Phases, pc : RunSteps, at : Databases(kind) \cup {""},
                            seen : SUBSET Shards, count : Nat, i : Nat, held : 0..report]
  <2>1. PICK q : q = loader[l]
    OBVIOUS
  <2>2. q \in LoadRuns /\ PhaseIsSound(q)
    BY <2>1, ThisRun
  <2>3. q.held \in 0..report
    <3>1. q.held \in Nat /\ q.held <= report
      BY <2>2 DEF LoadRuns, PhaseIsSound
    <3> QED
      BY <1>1, <3>1
  <2> QED
    BY <2>1, <2>2, <2>3 DEF LoadRuns
<1>5. LoadTypeOK
  BY <1>1, <1>3, <1>4 DEF LoadTypeOK
<1>6. \A d \in Databases(kind) : SoundTarget(db[d])
  BY DEF LoadInv
<1>7. ReadyIsComplete
  BY <1>2, <1>6 DEF ReadyIsComplete, SoundTarget, Journaled
<1>8. ServesNoStrayRow
  BY <1>2, <1>6 DEF ServesNoStrayRow, SoundTarget
<1>9. ActivatedMeansServing
  BY <1>2, ThisRun DEF ActivatedMeansServing, PhaseIsSound
<1> QED
  BY <1>5, <1>7, <1>8, <1>9 DEF TargetsAreSound, LoadInv

\* The invariant of the loaders: a shard is in its target once and with its marker, a
\* finalizer that does not check the journal is only on its way when the journals are
\* complete, and the catalogue comes after the holdings.
THEOREM LoadInvariance == LoadSpec => []LoadInv
<1>1. LoadInit => LoadInv
  BY LoadInitially
<1>2. LoadInv /\ [LoadNext]_loadVars => LoadInv'
  BY LoadStepKeeps
<1> QED
  BY <1>1, <1>2, PTL DEF LoadSpec

\* A target that serves is the snapshot, applied once and whole, the catalogue only with its
\* holdings, and a run that ended well was given the report the target is bound to - for every
\* number of shards, migrations, overlapping runs, kills and stray rows.
THEOREM TargetsStaySound == LoadSpec => []TargetsAreSound
<1>1. LoadInv => TargetsAreSound
  BY LoadSuffices
<1> QED
  BY <1>1, LoadInvariance, PTL
=============================================================================
