----------------------------- MODULE Upkeep_proofs -----------------------------
(***************************************************************************)
(* Proofs about the work that surrounds the claims: the media mirror, the   *)
(* issuers' changes, the gas receipts, the gas monitor, the wallets of      *)
(* Emails and the personal archives, each for any number of runs or         *)
(* requests that overlap, fail or are ended half-way.                       *)
(***************************************************************************)
EXTENDS ArchiveMirror, IssuerAdmin, GasMonitor, GasReceipts, WalletProvisioning,
        PersonalExport, NaturalSets, SequenceTheorems

------------------------------------------------------------------------------
(* The media mirror.                                                         *)

Behind(n) == \A d \in Drops : d <= n => d \in mirrored

\* What a run has read lies behind what is mirrored, though another run may
\* have moved the cursor, forward or back, since.
RunCovers(run) ==
  /\ run.phase \in {"page", "copy", "save"} => Behind(run.after)
  /\ run.phase \in {"copy", "save"} =>
       /\ run.page = Page(run.after)
       /\ run.page \subseteq mirrored \cup run.left
  /\ run.phase = "save" => run.left = {}

MirrorInv == CursorCoversMirror /\ \A r \in MirrorRuns : RunCovers(mirrorRun[r])

LEMMA DropsAreNumbers ==
  /\ Drops \in SUBSET Nat /\ IsFiniteSet(Drops) /\ PageSize \in Nat /\ PageSize > 0
  /\ \A d \in Drops : d > 0
BY MirrorConstants DEF MirrorConstants

\* A page is a beginning of what follows the cursor.
LEMMA PageIsPrefix ==
  ASSUME NEW after \in Nat
  PROVE  /\ Page(after) \in SUBSET Drops /\ IsFiniteSet(Page(after))
         /\ \A d \in Page(after) : d > after
         /\ \A d \in Page(after), b \in Drops : after < b /\ b <= d => b \in Page(after)
         /\ Cardinality(Page(after)) < PageSize => Page(after) = {d \in Drops : d > after}
<1> DEFINE Before(d) == {z \in Drops : after < z /\ z < d}
<1>1. \A d \in Nat : Before(d) \in SUBSET Drops /\ IsFiniteSet(Before(d))
                     /\ Cardinality(Before(d)) \in Nat
  BY DropsAreNumbers, FS_Subset, FS_CardinalityType
<1>2. Page(after) = {d \in Drops : d > after /\ Cardinality(Before(d)) < PageSize}
  BY DEF Page
<1>3. Page(after) \in SUBSET Drops /\ IsFiniteSet(Page(after))
  BY <1>2, DropsAreNumbers, FS_Subset
<1>4. ASSUME NEW d \in Page(after), NEW b \in Drops, after < b, b <= d
      PROVE  b \in Page(after)
  <2>1. b \in Nat /\ d \in Nat /\ Cardinality(Before(d)) < PageSize
    BY <1>2, <1>3, DropsAreNumbers
  <2>2. \A c \in Drops : c \in Nat
    BY DropsAreNumbers
  <2>3. Before(b) \in SUBSET Before(d)
    <3>1. ASSUME NEW z \in Drops, z < b PROVE z < d
      BY <1>4, <2>1, <2>2, <3>1
    <3> QED
      BY <3>1
  <2>4. Cardinality(Before(b)) <= Cardinality(Before(d))
    BY <1>1, <2>1, <2>3, FS_Subset
  <2>5. Cardinality(Before(b)) < PageSize
    BY <1>1, <2>1, <2>4, DropsAreNumbers
  <2> QED
    BY <1>2, <1>4, <2>5
<1>5. ASSUME Cardinality(Page(after)) < PageSize, NEW d \in Drops, d > after, d \notin Page(after)
      PROVE  FALSE
  <2> DEFINE rest == {x \in Drops : x > after /\ x \notin Page(after)}
  <2>1. rest \in SUBSET Nat /\ rest # {}
    BY <1>5, DropsAreNumbers
  <2>2. PICK x \in rest : \A y \in rest : x <= y
    BY <2>1, LeastOf
  <2>3. x \in Nat /\ x \in Drops /\ x > after /\ x \notin Page(after)
    BY <2>1, <2>2
  <2>4. Before(x) \in SUBSET Page(after)
    <3> SUFFICES ASSUME NEW b \in Drops, after < b, b < x PROVE b \in Page(after)
      OBVIOUS
    <3>1. b \in Nat
      BY DropsAreNumbers
    <3> QED
      BY <2>2, <2>3, <3>1
  <2>5. Cardinality(Before(x)) <= Cardinality(Page(after))
    BY <1>3, <2>4, FS_Subset
  <2>6. Cardinality(Before(x)) < PageSize
    BY <1>1, <1>3, <1>5, <2>3, <2>5, DropsAreNumbers, FS_CardinalityType
  <2> QED
    BY <1>2, <2>3, <2>6
<1> QED
  BY <1>2, <1>3, <1>4, <1>5

\* A run whose page is mirrored has everything up to the page's last row.
LEMMA LastCovers ==
  ASSUME MirrorTypeOK, NEW after \in Nat, Behind(after), Page(after) \subseteq mirrored
  PROVE  /\ LastOf(Page(after), after) \in {after} \cup Drops
         /\ Behind(LastOf(Page(after), after))
         /\ Cardinality(Page(after)) < PageSize => mirrored = Drops
<1> DEFINE page == Page(after)
<1>1. /\ page \in SUBSET Drops /\ IsFiniteSet(page)
      /\ \A d \in page, b \in Drops : after < b /\ b <= d => b \in page
      /\ Cardinality(page) < PageSize => page = {d \in Drops : d > after}
  BY PageIsPrefix
<1>2. page \in SUBSET Nat
  BY <1>1, DropsAreNumbers
<1> HIDE DEF page
<1>3. Cardinality(page) < PageSize => mirrored = Drops
  <2> SUFFICES ASSUME Cardinality(page) < PageSize, NEW d \in Drops PROVE d \in mirrored
    BY DEF MirrorTypeOK
  <2>1. d <= after \/ d > after
    BY DropsAreNumbers
  <2> QED
    BY <1>1, <2>1 DEF Behind, page
<1>4. CASE page = {}
  BY <1>3, <1>4 DEF LastOf, page
<1>5. CASE page # {}
  <2> DEFINE last == CHOOSE d \in page : \A b \in page : b <= d
  <2>1. last \in page
    BY <1>1, <1>2, <1>5, GreatestOf
  <2>2. LastOf(page, after) = last
    BY <1>5 DEF LastOf
  <2> HIDE DEF last
  <2>3. Behind(last)
    <3> SUFFICES ASSUME NEW b \in Drops, b <= last PROVE b \in mirrored
      BY DEF Behind
    <3>1. b <= after \/ after < b
      BY DropsAreNumbers
    <3> QED
      BY <1>1, <2>1, <3>1 DEF Behind, page
  <2> QED
    BY <1>1, <1>3, <2>1, <2>2, <2>3 DEF page
<1> QED
  BY <1>4, <1>5

LEMMA MirrorInitially == MirrorInit => MirrorInv
<1> SUFFICES ASSUME MirrorInit PROVE MirrorInv
  OBVIOUS
<1>1. MirrorTypeOK
  BY MirrorConstants DEF MirrorConstants, MirrorInit, MirrorTypeOK, NoMirrorRun, Cursors
<1>2. Behind(0) /\ progress = [after |-> 0, complete |-> FALSE]
  BY DropsAreNumbers DEF Behind, MirrorInit
<1> QED
  BY <1>1, <1>2 DEF MirrorInv, CursorCoversMirror, MirrorInit, RunCovers, NoMirrorRun, Behind

\* More is mirrored, and one run goes on.
LEMMA MirrorMoves ==
  ASSUME MirrorInv, NEW r \in MirrorRuns, NEW run, mirrorRun' = [mirrorRun EXCEPT ![r] = run],
         mirrored \subseteq mirrored', mirrored' \subseteq Drops, UNCHANGED progress,
         RunCovers(run)',
         run \in [phase : {"idle", "page", "copy", "save"}, after : Cursors,
                  page : SUBSET Drops, left : SUBSET Drops],
         mirrorFaults' \in 0..MaxMirrorFaults
  PROVE  MirrorInv'
<1>1. MirrorTypeOK'
  BY DEF MirrorInv, CursorCoversMirror, MirrorTypeOK
<1>2. CursorCoversMirror'
  BY <1>1 DEF MirrorInv, CursorCoversMirror
<1>3. \A other : RunCovers(other) => RunCovers(other)'
  BY DEF RunCovers, Behind
<1>4. \A q \in MirrorRuns : RunCovers(mirrorRun[q])'
  BY <1>3 DEF MirrorInv, CursorCoversMirror, MirrorTypeOK
<1> QED
  BY <1>2, <1>4 DEF MirrorInv

LEMMA MirrorStepKeeps ==
  ASSUME MirrorInv, NEW r \in MirrorRuns, MirrorStep(r) \/ MirrorFails(r)
  PROVE  MirrorInv'
<1> DEFINE RunStates == [phase : {"idle", "page", "copy", "save"}, after : Cursors,
                         page : SUBSET Drops, left : SUBSET Drops]
<1>1. /\ MirrorTypeOK /\ mirrorRun[r] \in RunStates /\ RunCovers(mirrorRun[r])
      /\ progress.after \in Cursors /\ Behind(progress.after)
      /\ progress.complete => mirrored = Drops
  BY DEF MirrorInv, CursorCoversMirror, MirrorTypeOK, Behind
<1>2. PICK old \in RunStates : old = mirrorRun[r]
  BY <1>1
<1>3. /\ old.after \in Cursors /\ old.after \in Nat
      /\ old.page \in SUBSET Drops /\ old.left \in SUBSET Drops
  <2>1. old.after \in Cursors /\ old.page \in SUBSET Drops /\ old.left \in SUBSET Drops
    OBVIOUS
  <2>2. Cursors \subseteq Nat
    BY DropsAreNumbers DEF Cursors
  <2> QED
    BY <2>1, <2>2
<1>4. NoMirrorRun \in RunStates /\ RunCovers(NoMirrorRun)'
  BY DEF NoMirrorRun, RunCovers, Cursors
<1>5. CASE ReadProgress(r)
  <2>1. PICK run \in RunStates :
          /\ run.phase = "page" /\ run.after = progress.after
          /\ mirrorRun' = [mirrorRun EXCEPT ![r] = run]
    BY <1>1, <1>5 DEF ReadProgress, NoMirrorRun
  <2>2. UNCHANGED <<mirrored, progress>> /\ mirrorFaults' \in 0..MaxMirrorFaults
    BY <1>1, <1>5 DEF ReadProgress, MirrorTypeOK
  <2>3. RunCovers(run)'
    BY <1>1, <2>1, <2>2 DEF RunCovers, Behind
  <2> QED
    BY <1>1, <2>1, <2>2, <2>3, MirrorMoves DEF MirrorTypeOK
<1>6. CASE ReadPage(r)
  <2>1. Page(old.after) \in SUBSET Drops
    BY <1>3, PageIsPrefix
  <2>2. PICK run \in RunStates :
          /\ run.phase = "copy" /\ run.after = old.after
          /\ run.page = Page(old.after) /\ run.left = Page(old.after)
          /\ mirrorRun' = [mirrorRun EXCEPT ![r] = run]
    <3> DEFINE new == [old EXCEPT !.phase = "copy", !.page = Page(old.after),
                                  !.left = Page(old.after)]
    <3>1. /\ new \in RunStates /\ new.phase = "copy" /\ new.after = old.after
          /\ new.page = Page(old.after) /\ new.left = Page(old.after)
      BY <2>1
    <3>2. mirrorRun' = [mirrorRun EXCEPT ![r] = new]
      BY <1>1, <1>2, <1>6 DEF ReadPage, MirrorTypeOK
    <3> QED
      BY <3>1, <3>2
  <2>3. UNCHANGED <<mirrored, progress>> /\ mirrorFaults' \in 0..MaxMirrorFaults
    BY <1>1, <1>6 DEF ReadPage, MirrorTypeOK
  <2>4. RunCovers(run)'
    BY <1>1, <1>2, <1>6, <2>2, <2>3 DEF RunCovers, Behind, ReadPage
  <2> QED
    BY <1>1, <2>2, <2>3, <2>4, MirrorMoves DEF MirrorTypeOK
<1>7. ASSUME NEW d \in Drops, CopyObject(r, d) PROVE MirrorInv'
  <2>1. PICK run \in RunStates :
          /\ run.phase = "copy" /\ run.after = old.after
          /\ run.page = old.page /\ run.left = old.left \ {d}
          /\ mirrorRun' = [mirrorRun EXCEPT ![r] = run]
    <3> DEFINE new == [old EXCEPT !.left = old.left \ {d}]
    <3>1. /\ new \in RunStates /\ new.phase = "copy" /\ new.after = old.after
          /\ new.page = old.page /\ new.left = old.left \ {d}
      BY <1>2, <1>7 DEF CopyObject
    <3>2. mirrorRun' = [mirrorRun EXCEPT ![r] = new]
      BY <1>1, <1>2, <1>7 DEF CopyObject, MirrorTypeOK
    <3> QED
      BY <3>1, <3>2
  <2>2. /\ mirrored' = mirrored \cup {d} /\ UNCHANGED progress
        /\ mirrorFaults' \in 0..MaxMirrorFaults
    BY <1>1, <1>7 DEF CopyObject, MirrorTypeOK
  <2>3. RunCovers(run)'
    BY <1>1, <1>2, <1>7, <2>1, <2>2 DEF RunCovers, Behind, CopyObject
  <2> QED
    BY <1>1, <2>1, <2>2, <2>3, MirrorMoves DEF MirrorTypeOK
<1>8. CASE PageCopied(r)
  <2>1. PICK run \in RunStates :
          /\ run.phase = "save" /\ run.after = old.after
          /\ run.page = old.page /\ run.left = old.left
          /\ mirrorRun' = [mirrorRun EXCEPT ![r] = run]
    <3> DEFINE new == [old EXCEPT !.phase = "save"]
    <3>1. /\ new \in RunStates /\ new.phase = "save" /\ new.after = old.after
          /\ new.page = old.page /\ new.left = old.left
      OBVIOUS
    <3>2. mirrorRun' = [mirrorRun EXCEPT ![r] = new]
      BY <1>1, <1>2, <1>8 DEF PageCopied, MirrorTypeOK
    <3> QED
      BY <3>1, <3>2
  <2>2. UNCHANGED <<mirrored, progress>> /\ mirrorFaults' \in 0..MaxMirrorFaults
    BY <1>1, <1>8 DEF PageCopied, MirrorTypeOK
  <2>3. RunCovers(run)'
    BY <1>1, <1>2, <1>8, <2>1, <2>2 DEF RunCovers, Behind, PageCopied, AllCopied
  <2> QED
    BY <1>1, <2>1, <2>2, <2>3, MirrorMoves DEF MirrorTypeOK
<1>9. CASE SaveProgress(r)
  <2>1. /\ old.page = Page(old.after) /\ old.page \subseteq mirrored /\ Behind(old.after)
    BY <1>1, <1>2, <1>9 DEF SaveProgress, RunCovers
  <2> DEFINE last == LastOf(old.page, old.after)
             cursor == [after |-> last, complete |-> Cardinality(old.page) < PageSize]
  <2>2. /\ last \in Cursors /\ Behind(last)
        /\ Cardinality(old.page) < PageSize => mirrored = Drops
    BY <1>1, <1>3, <2>1, LastCovers DEF Cursors
  <2>3. /\ progress' = cursor /\ UNCHANGED <<mirrored, mirrorFaults>>
        /\ mirrorRun' = [mirrorRun EXCEPT ![r] = NoMirrorRun]
    BY <1>2, <1>9 DEF SaveProgress
  <2>4. cursor \in [after : Cursors, complete : BOOLEAN]
    BY <2>2
  <2>5. cursor.after = last /\ (cursor.complete => mirrored = Drops)
    BY <2>2
  <2> HIDE DEF last, cursor
  <2>6. MirrorTypeOK'
    BY <1>1, <1>4, <2>3, <2>4 DEF MirrorTypeOK
  <2>7. CursorCoversMirror'
    BY <2>2, <2>3, <2>5, <2>6 DEF CursorCoversMirror, Behind
  <2>8. \A q \in MirrorRuns : RunCovers(mirrorRun[q])'
    BY <1>1, <1>4, <2>3 DEF MirrorInv, MirrorTypeOK, RunCovers, Behind
  <2> QED
    BY <2>7, <2>8 DEF MirrorInv
<1>10. CASE MirrorFails(r)
  <2>1. /\ mirrorRun' = [mirrorRun EXCEPT ![r] = NoMirrorRun]
        /\ UNCHANGED <<mirrored, progress>>
        /\ mirrorFaults' = mirrorFaults + 1 /\ mirrorFaults < MaxMirrorFaults
    BY <1>10 DEF MirrorFails
  <2>2. mirrorFaults' \in 0..MaxMirrorFaults
    BY <1>1, <2>1, MirrorConstants DEF MirrorConstants, MirrorTypeOK
  <2> QED
    BY <1>1, <1>4, <2>1, <2>2, MirrorMoves DEF MirrorTypeOK
<1> QED
  BY <1>5, <1>6, <1>7, <1>8, <1>9, <1>10 DEF MirrorStep

\* The invariant of the mirror holds of every number of overlapping runs: a run
\* that writes the cursor has stored all that lies before it.
THEOREM MirrorInvariance == MirrorSpec => []MirrorInv
<1>1. MirrorInv /\ [MirrorNext]_mirrorVars => MirrorInv'
  <2>1. ASSUME MirrorInv, MirrorNext PROVE MirrorInv'
    BY <2>1, MirrorStepKeeps DEF MirrorNext
  <2>2. ASSUME MirrorInv, UNCHANGED mirrorVars PROVE MirrorInv'
    BY <2>2 DEF MirrorInv, CursorCoversMirror, MirrorTypeOK, RunCovers, Behind, mirrorVars
  <2> QED
    BY <2>1, <2>2
<1> QED
  BY <1>1, MirrorInitially, PTL DEF MirrorSpec

\* Whatever is behind the cursor is in the mirror, and a mirror that is marked
\* complete is: runs that overlap and write the cursor back without a condition
\* (mirrorArchiveMedia) never skip an object.
THEOREM CursorNeverSkips == MirrorSpec => []CursorCoversMirror
<1>1. MirrorInv => CursorCoversMirror
  BY DEF MirrorInv
<1> QED
  BY <1>1, MirrorInvariance, PTL

------------------------------------------------------------------------------
(* The issuers' changes.                                                     *)

EditStates ==
  [phase : {"idle", "load", "store", "stamp", "commit", "publish", "done"},
   payload : Payloads, before : Rows, after : Rows]

\* What a request may rely on: as long as the row has the version it named, it
\* is the row it has read, and the files it will refer to are stored.
EditStands(e) ==
  /\ e.phase \in {"load", "store", "stamp", "commit"} =>
       e.payload.version < time /\ e.payload.version <= event.version
  /\ e.phase \in {"store", "stamp", "commit"} =>
       /\ e.before.version = e.payload.version
       /\ event.version = e.payload.version => event = e.before
       /\ e.payload.kind = "transition" => e.after.text = e.before.text
       /\ e.payload.kind = "update" => e.after.text = e.payload.text
  /\ e.phase = "store" =>
       /\ e.payload.kind = "update"
       /\ e.after.art \in bucket.artwork \/ (e.payload.artwork /\ e.after.art = e.payload.text)
  /\ e.phase \in {"stamp", "commit"} =>
       /\ e.after.art \in bucket.artwork
       /\ e.payload.kind = "update" => e.after.text \in bucket.files
  /\ e.phase = "commit" => e.payload.version < e.after.version
  /\ e.phase = "publish" =>
       /\ e.after.text \in bucket.files
       /\ \E c \in replaced : c[2].text = e.after.text

\* Without faults and crossings at most one request has a change to publish,
\* and it is the event's.
OnePublishes ==
  editFaults = 0 /\ ~crossed =>
    /\ \A r \in Edits : edit[r].phase = "publish" =>
         /\ edit[r].after.text = event.text
         /\ \A q \in Edits : edit[q].phase = "publish" => q = r
    /\ (\A r \in Edits : edit[r].phase # "publish") => bucket.current = event.text

IssuerInv ==
  /\ IssuerTypeOK /\ EveryChangeIsAudited /\ PublishedFilesExist /\ OnePublishes
  /\ \A r \in Edits : EditStands(edit[r])

LEMMA IssuerSuffices == IssuerInv => ChangesAreKept
BY DEF IssuerInv, ChangesAreKept, OnePublishes, MetadataKeepsUp

LEMMA PayloadFields ==
  ASSUME NEW p \in Payloads
  PROVE  /\ p.version \in 0..MaxTime /\ p.kind \in {"update", "transition"}
         /\ p.kind = "update" => p.text \in Texts /\ p.artwork \in BOOLEAN
         /\ p.kind = "transition" => p.status \in {"published", "closed"}
BY DEF Payloads

LEMMA RowFields ==
  ASSUME NEW x \in Rows
  PROVE  /\ x.version \in 0..MaxTime /\ x.text \in Contents /\ x.art \in Contents
         /\ x.status \in Statuses /\ x.version \in Nat
BY IssuerConstants DEF Rows, IssuerConstants

LEMMA IssuerInitially == IssuerInit => IssuerInv
<1> SUFFICES ASSUME IssuerInit PROVE IssuerInv
  OBVIOUS
<1>1. event \in Rows /\ event.text = Original /\ event.art = Original
  BY IssuerConstants DEF IssuerInit, IssuerConstants, Rows, Contents
<1>2. NoPayload \in Payloads
  BY IssuerConstants DEF NoPayload, Payloads, IssuerConstants
<1>3. IssuerTypeOK
  <2>1. edit \in [Edits -> EditStates]
    BY <1>1, <1>2 DEF IssuerInit, EditStates
  <2>2. bucket \in [artwork : SUBSET Contents, files : SUBSET Contents, current : Contents]
    BY DEF IssuerInit, Contents
  <2>3. time \in 0..MaxTime /\ editFaults \in 0..MaxEditFaults
    BY IssuerConstants DEF IssuerInit, IssuerConstants
  <2> QED
    BY <1>1, <2>1, <2>2, <2>3 DEF IssuerInit, IssuerTypeOK, EditStates
<1>4. EveryChangeIsAudited /\ PublishedFilesExist /\ OnePublishes
  BY <1>1 DEF IssuerInit, EveryChangeIsAudited, PublishedFilesExist, OnePublishes
<1>5. \A r \in Edits : EditStands(edit[r])
  BY DEF IssuerInit, EditStands
<1> QED
  BY <1>3, <1>4, <1>5 DEF IssuerInv

\* A request goes on, stores files or gives up, and nothing is committed.
LEMMA EditMoves ==
  ASSUME IssuerInv, NEW r \in Edits, NEW e \in EditStates,
         edit' = [edit EXCEPT ![r] = e], EditStands(e)',
         UNCHANGED <<event, revisions, replaced, crossed, time>>,
         bucket' \in [artwork : SUBSET Contents, files : SUBSET Contents, current : Contents],
         bucket.artwork \subseteq bucket'.artwork, bucket.files \subseteq bucket'.files,
         bucket'.current = bucket.current,
         editFaults' \in 0..MaxEditFaults, editFaults' = 0 => editFaults = 0,
         e.phase # "publish", edit[r].phase = "publish" => editFaults' # 0
  PROVE  IssuerInv'
<1>1. IssuerTypeOK'
  BY DEF IssuerInv, IssuerTypeOK, EditStates
<1>2. EveryChangeIsAudited' /\ PublishedFilesExist'
  BY DEF IssuerInv, EveryChangeIsAudited, PublishedFilesExist
<1>3. OnePublishes'
  BY DEF IssuerInv, OnePublishes, IssuerTypeOK
<1>4. \A f \in EditStates : EditStands(f) => EditStands(f)'
  BY DEF EditStands
<1>5. \A q \in Edits : EditStands(edit[q])'
  BY <1>4 DEF IssuerInv, IssuerTypeOK, EditStates
<1> QED
  BY <1>1, <1>2, <1>3, <1>5 DEF IssuerInv

LEMMA ReceiveKeeps ==
  ASSUME IssuerInv, NEW r \in Edits, NEW p \in Payloads, Receive(r, p)
  PROVE  IssuerInv'
<1>1. /\ edit[r] \in EditStates /\ edit[r].phase = "idle"
      /\ p.version = event.version /\ event.version < time
      /\ UNCHANGED <<event, revisions, bucket, time, replaced, crossed, editFaults>>
      /\ edit' = [edit EXCEPT ![r].phase = "load", ![r].payload = p]
  BY DEF Receive, IssuerInv, IssuerTypeOK, EditStates
<1>2. PICK e \in EditStates :
        /\ e.phase = "load" /\ e.payload = p
        /\ edit' = [edit EXCEPT ![r] = e]
  <2> DEFINE new == [edit[r] EXCEPT !.phase = "load", !.payload = p]
  <2>1. new \in EditStates /\ new.phase = "load" /\ new.payload = p
    BY <1>1 DEF EditStates
  <2>2. edit' = [edit EXCEPT ![r] = new]
    BY <1>1 DEF IssuerInv, IssuerTypeOK
  <2> QED
    BY <2>1, <2>2
<1>3. event \in Rows
  BY DEF IssuerInv, IssuerTypeOK
<1>4. EditStands(e)'
  BY <1>1, <1>2, <1>3, RowFields DEF EditStands
<1> QED
  BY <1>1, <1>2, <1>4, EditMoves DEF IssuerInv, IssuerTypeOK

\* A request that is refused, or that fails.
LEMMA EditEnds ==
  ASSUME IssuerInv, NEW r \in Edits, edit' = [edit EXCEPT ![r].phase = "done"],
         UNCHANGED <<event, revisions, bucket, replaced, crossed, time>>,
         editFaults' \in 0..MaxEditFaults, editFaults' = 0 => editFaults = 0,
         edit[r].phase = "publish" => editFaults' # 0
  PROVE  IssuerInv'
<1>1. PICK e \in EditStates : e.phase = "done" /\ edit' = [edit EXCEPT ![r] = e]
  <2> DEFINE new == [edit[r] EXCEPT !.phase = "done"]
  <2>1. new \in EditStates /\ new.phase = "done"
    BY DEF EditStates, IssuerInv, IssuerTypeOK
  <2>2. edit' = [edit EXCEPT ![r] = new]
    OBVIOUS
  <2> QED
    BY <2>1, <2>2
<1>2. EditStands(e)'
  BY <1>1 DEF EditStands
<1> QED
  BY <1>1, <1>2, EditMoves DEF IssuerInv, IssuerTypeOK

LEMMA LoadKeeps ==
  ASSUME IssuerInv, NEW r \in Edits, Load(r)
  PROVE  IssuerInv'
<1> DEFINE refused == \/ event.version # edit[r].payload.version
                      \/ edit[r].payload.kind = "transition"
                           /\ ~AllowedTransition(event.status, edit[r].payload.status)
           transition == [event EXCEPT !.status = edit[r].payload.status]
           art == IF edit[r].payload.artwork THEN edit[r].payload.text ELSE event.art
           update == [event EXCEPT !.text = edit[r].payload.text, !.art = art]
           after == IF edit[r].payload.kind = "transition" THEN transition ELSE update
           next == AfterLoad(edit[r].payload)
<1>1. /\ edit[r] \in EditStates /\ edit[r].phase = "load" /\ EditStands(edit[r])
      /\ UNCHANGED <<event, revisions, bucket, time, replaced, crossed, editFaults>>
      /\ event \in Rows /\ edit[r].payload \in Payloads
  BY DEF Load, IssuerInv, IssuerTypeOK, EditStates
<1>2. CASE refused
  BY <1>1, <1>2, EditEnds DEF Load, Refuse, IssuerInv, IssuerTypeOK
<1>3. CASE ~ refused
  <2>1. edit' = [edit EXCEPT ![r].before = event, ![r].after = after, ![r].phase = next]
    BY <1>3 DEF Load
  <2>2. PICK p \in Payloads : p = edit[r].payload
    BY <1>1
  <2>3. p.kind = "transition" => transition \in Rows /\ transition.text = event.text
                                   /\ transition.art = event.art
    BY <1>1, <2>2, PayloadFields DEF Rows, Statuses
  <2>4. p.kind = "update" =>
          /\ update \in Rows /\ update.text = p.text
          /\ update.art = event.art \/ (p.artwork /\ update.art = p.text)
    <3>1. p.kind = "update" =>
            art \in Contents /\ (art = event.art \/ (p.artwork /\ art = p.text))
      BY <1>1, <2>2, PayloadFields, RowFields DEF Contents
    <3> HIDE DEF art
    <3> QED
      BY <1>1, <2>2, <3>1, PayloadFields DEF Rows, Contents
  <2>5. PICK a \in Rows :
          /\ a = after
          /\ p.kind = "transition" => a.text = event.text /\ a.art = event.art
          /\ p.kind = "update" =>
               a.text = p.text /\ (a.art = event.art \/ (p.artwork /\ a.art = p.text))
    <3> HIDE DEF transition, update
    <3> QED
      BY <2>2, <2>3, <2>4, PayloadFields
  <2>6. /\ next \in {"store", "stamp"}
        /\ p.kind = "update" => next = "store"
        /\ p.kind = "transition" => next = "stamp"
    BY <2>2 DEF AfterLoad
  <2> HIDE DEF next, after
  <2>7. PICK e \in EditStates :
          /\ e.phase = next /\ e.payload = p /\ e.before = event /\ e.after = a
          /\ edit' = [edit EXCEPT ![r] = e]
    <3> DEFINE new == [edit[r] EXCEPT !.before = event, !.after = a, !.phase = next]
    <3>1. /\ new \in EditStates /\ new.phase = next /\ new.payload = p /\ new.before = event
          /\ new.after = a
      BY <1>1, <2>2, <2>6 DEF EditStates
    <3>2. edit' = [edit EXCEPT ![r] = new]
      BY <2>1, <2>5 DEF IssuerInv, IssuerTypeOK
    <3> QED
      BY <3>1, <3>2
  <2>8. PICK phase \in {"store", "stamp"} :
          /\ e.phase = phase
          /\ p.kind = "update" => phase = "store"
          /\ p.kind = "transition" => phase = "stamp"
    BY <2>6, <2>7
  <2>9. p.version < time /\ p.version = event.version /\ event.version \in Nat
    BY <1>1, <1>3, <2>2, RowFields DEF EditStands
  <2>10. event.art \in bucket.artwork
    BY DEF IssuerInv, PublishedFilesExist
  <2>11. EditStands(e)'
    BY <1>1, <2>5, <2>7, <2>8, <2>9, <2>10, PayloadFields DEF EditStands
  <2> QED
    BY <1>1, <2>7, <2>8, <2>11, EditMoves DEF IssuerInv, IssuerTypeOK
<1> QED
  BY <1>2, <1>3

LEMMA StoreFilesKeeps ==
  ASSUME IssuerInv, NEW r \in Edits, StoreFiles(r)
  PROVE  IssuerInv'
<1>1. PICK old \in EditStates : old = edit[r] /\ EditStands(old) /\ old.phase = "store"
  BY DEF StoreFiles, IssuerInv, IssuerTypeOK, EditStates
<1> DEFINE art == IF old.payload.artwork THEN {old.payload.text} ELSE {}
<1>2. /\ old.payload \in Payloads /\ old.payload.kind = "update"
      /\ old.payload.text \in Contents /\ art \in SUBSET Contents
  BY <1>1, PayloadFields DEF EditStates, EditStands, Contents
<1>3. /\ bucket' = [bucket EXCEPT !.artwork = bucket.artwork \cup art,
                                  !.files = bucket.files \cup {old.payload.text}]
      /\ UNCHANGED <<event, revisions, time, replaced, crossed, editFaults>>
  BY <1>1 DEF StoreFiles
<1> HIDE DEF art
<1>4. /\ bucket' \in [artwork : SUBSET Contents, files : SUBSET Contents, current : Contents]
      /\ bucket'.artwork = bucket.artwork \cup art
      /\ bucket'.files = bucket.files \cup {old.payload.text}
      /\ bucket'.current = bucket.current
  BY <1>2, <1>3 DEF IssuerInv, IssuerTypeOK
<1>5. PICK e \in EditStates :
        /\ e.phase = "stamp" /\ e.payload = old.payload /\ e.before = old.before
        /\ e.after = old.after
        /\ edit' = [edit EXCEPT ![r] = e]
  <2> DEFINE new == [old EXCEPT !.phase = "stamp"]
  <2>1. /\ new \in EditStates /\ new.phase = "stamp" /\ new.payload = old.payload
        /\ new.before = old.before /\ new.after = old.after
    BY DEF EditStates
  <2>2. edit' = [edit EXCEPT ![r] = new]
    BY <1>1 DEF StoreFiles
  <2> QED
    BY <2>1, <2>2
<1>6. old.payload.artwork => old.payload.text \in art
  BY DEF art
<1>7. EditStands(e)'
  BY <1>1, <1>2, <1>3, <1>4, <1>5, <1>6 DEF EditStands
<1> QED
  BY <1>1, <1>3, <1>4, <1>5, <1>7, EditMoves DEF IssuerInv, IssuerTypeOK

LEMMA StampKeeps ==
  ASSUME IssuerInv, NEW r \in Edits, Stamp(r)
  PROVE  IssuerInv'
<1>1. PICK old \in EditStates : old = edit[r] /\ EditStands(old) /\ old.phase = "stamp"
  BY DEF Stamp, IssuerInv, IssuerTypeOK, EditStates
<1>2. PICK now \in 0..MaxTime : now = time
  BY DEF IssuerInv, IssuerTypeOK
<1>3. PICK a \in Rows :
        /\ a.version = now /\ a.text = old.after.text /\ a.art = old.after.art
        /\ a.status = old.after.status
        /\ a = [old.after EXCEPT !.version = now]
  <2> DEFINE new == [old.after EXCEPT !.version = now]
  <2>1. /\ new \in Rows /\ new.version = now /\ new.text = old.after.text
        /\ new.art = old.after.art /\ new.status = old.after.status
    BY DEF EditStates, Rows
  <2> QED
    BY <2>1
<1>4. PICK e \in EditStates :
        /\ e.phase = "commit" /\ e.payload = old.payload /\ e.before = old.before
        /\ e.after = a
        /\ edit' = [edit EXCEPT ![r] = e]
  <2> DEFINE new == [old EXCEPT !.phase = "commit", !.after = a]
  <2>1. /\ new \in EditStates /\ new.phase = "commit" /\ new.payload = old.payload
        /\ new.before = old.before /\ new.after = a
    BY DEF EditStates
  <2>2. edit' = [edit EXCEPT ![r].phase = "commit", ![r].after.version = now]
    BY <1>2 DEF Stamp, Now
  <2>3. edit' = [edit EXCEPT ![r] = new]
    BY ZenonT(40), <1>1, <1>3, <2>2 DEF IssuerInv, IssuerTypeOK
  <2> QED
    BY <2>1, <2>3
<1>5. UNCHANGED <<event, revisions, bucket, time, replaced, crossed, editFaults>>
  BY DEF Stamp
<1>6. EditStands(e)'
  BY <1>1, <1>2, <1>3, <1>4, <1>5 DEF EditStands
<1> QED
  BY <1>1, <1>4, <1>5, <1>6, EditMoves DEF IssuerInv, IssuerTypeOK

LEMMA EditFailsKeeps ==
  ASSUME IssuerInv, NEW r \in Edits, EditFails(r)
  PROVE  IssuerInv'
<1>1. editFaults' = editFaults + 1 /\ editFaults < MaxEditFaults /\ editFaults \in 0..MaxEditFaults
  BY DEF EditFails, IssuerInv, IssuerTypeOK
<1>2. editFaults' \in 0..MaxEditFaults /\ editFaults' # 0
  BY <1>1, IssuerConstants DEF IssuerConstants
<1> QED
  BY <1>2, EditEnds DEF EditFails

\* The row has the version the request named, so it is the row the request has
\* read, and the entry that is audited is the change.
LEMMA WonMeansRead ==
  ASSUME IssuerInv, NEW r \in Edits, edit[r].phase = "commit", Won(edit[r])
  PROVE  event = edit[r].before
BY DEF IssuerInv, EditStands, Won

LEMMA CommitKeeps ==
  ASSUME IssuerInv, NEW r \in Edits, Commit(r)
  PROVE  IssuerInv'
<1>1. PICK old \in EditStates : old = edit[r] /\ EditStands(old) /\ old.phase = "commit"
  BY DEF Commit, IssuerInv, IssuerTypeOK, EditStates
<1> DEFINE won == Won(old)
           written == IF won THEN old.after ELSE event
           audited == Audited(written, old)
           duplicate == audited /\ \E x \in revisions : x.id = old.payload
           entry == [id |-> old.payload, before |-> old.before, after |-> old.after, by |-> r]
           next == IF won /\ ~duplicate /\ old.payload.kind = "update" THEN "publish" ELSE "done"
<1>2. /\ edit' = [edit EXCEPT ![r].phase = next]
      /\ UNCHANGED <<bucket, time, editFaults>>
  BY <1>1 DEF Commit
<1>3. CASE ~ won \/ duplicate
  <2>1. UNCHANGED <<event, replaced, crossed>> /\ next = "done"
    <3>1. next = "done"
      BY <1>3
    <3>2. CASE duplicate
      BY <1>1, <3>1, <3>2 DEF Commit
    <3>3. CASE ~ duplicate
      <4>1. ~ won
        BY <1>3, <3>3
      <4>2. /\ event' = written /\ replaced' = IF won THEN replaced \cup {<<event, written>>} ELSE replaced
            /\ crossed' = (crossed \/ (won /\ \E q \in Edits : edit[q].phase = "publish"))
        BY <1>1, <3>3 DEF Commit
      <4>3. event' = event /\ replaced' = replaced
        BY <4>1, <4>2
      <4>4. crossed' = crossed
        <5> HIDE DEF won
        <5>1. crossed \in BOOLEAN
          BY DEF IssuerInv, IssuerTypeOK
        <5> QED
          BY <4>1, <4>2, <5>1
      <4> QED
        BY <3>1, <4>3, <4>4
    <3> QED
      BY <3>2, <3>3
  <2>2. revisions \subseteq revisions' /\ revisions' \subseteq revisions \cup {entry}
    BY <1>1, <1>3 DEF Commit
  <2> HIDE DEF won, duplicate, next
  <2>3. PICK e \in EditStates : e.phase = "done" /\ edit' = [edit EXCEPT ![r] = e]
    <3> DEFINE new == [old EXCEPT !.phase = "done"]
    <3>1. new \in EditStates /\ new.phase = "done"
      BY DEF EditStates
    <3>2. edit' = [edit EXCEPT ![r] = new]
      BY <1>1, <1>2, <2>1
    <3> QED
      BY <3>1, <3>2
  <2>4. entry \in [id : Payloads, before : Rows, after : Rows, by : Edits]
    BY DEF EditStates
  <2> HIDE DEF entry
  <2>5. IssuerTypeOK'
    BY <1>2, <2>1, <2>2, <2>3, <2>4 DEF IssuerInv, IssuerTypeOK, EditStates
  <2>6. EveryChangeIsAudited' /\ PublishedFilesExist'
    BY <1>2, <2>1, <2>2 DEF IssuerInv, EveryChangeIsAudited, PublishedFilesExist
  <2>7. OnePublishes'
    BY <1>1, <1>2, <2>1, <2>3 DEF IssuerInv, OnePublishes, IssuerTypeOK
  <2>8. EditStands(e)' /\ \A f \in EditStates : EditStands(f) => EditStands(f)'
    BY <1>2, <2>1, <2>3 DEF EditStands
  <2>9. \A q \in Edits : EditStands(edit[q])'
    BY <2>3, <2>8 DEF IssuerInv, IssuerTypeOK, EditStates
  <2> QED
    BY <2>5, <2>6, <2>7, <2>9 DEF IssuerInv
<1>4. CASE won /\ ~ duplicate
  <2>1. audited
    BY <1>4 DEF Audited
  <2>2. /\ event' = old.after /\ revisions' = revisions \cup {entry}
        /\ replaced' = replaced \cup {<<event, old.after>>}
        /\ crossed' = (crossed \/ \E q \in Edits : edit[q].phase = "publish")
    BY <1>1, <1>4, <2>1 DEF Commit
  <2>3. /\ event = old.before /\ event \in Rows /\ old.after \in Rows
        /\ event.version = old.payload.version /\ old.payload.version < old.after.version
    BY <1>1, <1>4, WonMeansRead DEF EditStands, Won, IssuerInv, IssuerTypeOK, EditStates
  <2>4. next \in {"publish", "done"} /\ (next = "publish" <=> old.payload.kind = "update")
    BY <1>4
  <2> HIDE DEF won, duplicate, next, written, audited
  <2>5. PICK e \in EditStates :
          /\ e.phase = next /\ e.after = old.after /\ e.payload = old.payload
          /\ edit' = [edit EXCEPT ![r] = e]
    <3> DEFINE new == [old EXCEPT !.phase = next]
    <3>1. /\ new \in EditStates /\ new.phase = next /\ new.after = old.after
          /\ new.payload = old.payload
      BY <2>4 DEF EditStates
    <3>2. edit' = [edit EXCEPT ![r] = new]
      BY <1>1, <1>2
    <3> QED
      BY <3>1, <3>2
  <2>6. entry \in [id : Payloads, before : Rows, after : Rows, by : Edits]
         /\ entry.before = old.before /\ entry.after = old.after
    BY DEF EditStates
  <2> HIDE DEF entry
  <2>7. IssuerTypeOK'
    <3>1. crossed' \in BOOLEAN
      BY <2>2
    <3>2. replaced' \subseteq Rows \X Rows
      BY <2>2, <2>3 DEF IssuerInv, IssuerTypeOK
    <3> QED
      BY <1>2, <2>2, <2>3, <2>5, <2>6, <3>1, <3>2 DEF IssuerInv, IssuerTypeOK, EditStates
  <2>8. EveryChangeIsAudited'
    BY <2>2, <2>3, <2>6 DEF IssuerInv, EveryChangeIsAudited
  <2>9. PublishedFilesExist'
    BY <1>1, <1>2, <2>2 DEF IssuerInv, PublishedFilesExist, EditStands
  <2>10. OnePublishes'
    <3> SUFFICES ASSUME editFaults' = 0, ~crossed'
                 PROVE  /\ \A p \in Edits : edit'[p].phase = "publish" =>
                             /\ edit'[p].after.text = event'.text
                             /\ \A q \in Edits : edit'[q].phase = "publish" => q = p
                        /\ (\A p \in Edits : edit'[p].phase # "publish") =>
                             bucket'.current = event'.text
      BY DEF OnePublishes
    <3>1. \A q \in Edits : edit[q].phase # "publish"
      BY <2>2
    <3>2. bucket.current = event.text /\ bucket' = bucket
      BY <1>2, <2>2, <3>1 DEF IssuerInv, OnePublishes
    <3>3. edit'[r] = e /\ \A q \in Edits \ {r} : edit'[q] = edit[q]
      BY <2>5 DEF IssuerInv, IssuerTypeOK
    <3>4. CASE old.payload.kind = "update"
      BY <2>2, <2>4, <2>5, <3>1, <3>3, <3>4
    <3>5. CASE old.payload.kind = "transition"
      <4>1. old.after.text = event.text
        BY <1>1, <2>3, <3>5 DEF EditStands
      <4> QED
        BY <2>2, <2>4, <2>5, <3>1, <3>2, <3>3, <3>5, <4>1
    <3>6. old.payload \in Payloads
      BY DEF EditStates
    <3> QED
      BY <3>4, <3>5, <3>6, PayloadFields
  <2>11. EditStands(e)'
    <3>1. CASE e.phase = "done"
      BY <3>1 DEF EditStands
    <3>2. CASE e.phase = "publish"
      <4>1. old.payload.kind = "update"
        BY <2>4, <2>5, <3>2
      <4>2. e.after.text \in bucket'.files
        BY <1>1, <1>2, <2>5, <4>1 DEF EditStands
      <4>3. <<event, old.after>> \in replaced' /\ <<event, old.after>>[2].text = e.after.text
        BY <2>2, <2>5
      <4> QED
        BY <3>2, <4>2, <4>3 DEF EditStands
    <3> QED
      BY <2>4, <2>5, <3>1, <3>2
  <2>12. ASSUME NEW f \in EditStates, EditStands(f) PROVE EditStands(f)'
    <3>1. /\ f.payload.version \in Nat /\ event.version \in Nat /\ event'.version \in Nat
          /\ event.version < event'.version
      BY <2>2, <2>3, RowFields, PayloadFields, IssuerConstants DEF EditStates, IssuerConstants
    <3> QED
      BY <1>2, <2>2, <2>12, <3>1 DEF EditStands
  <2>13. \A q \in Edits : EditStands(edit[q])'
    BY <2>5, <2>11, <2>12 DEF IssuerInv, IssuerTypeOK, EditStates
  <2> QED
    BY <2>7, <2>8, <2>9, <2>10, <2>13 DEF IssuerInv
<1> QED
  BY <1>3, <1>4

LEMMA PublishMetadataKeeps ==
  ASSUME IssuerInv, NEW r \in Edits, PublishMetadata(r)
  PROVE  IssuerInv'
<1>1. PICK old \in EditStates : old = edit[r] /\ EditStands(old) /\ old.phase = "publish"
  BY DEF PublishMetadata, IssuerInv, IssuerTypeOK, EditStates
<1>2. UNCHANGED <<event, revisions, time, replaced, crossed, editFaults>>
  BY DEF PublishMetadata
<1>3. old.after.text \in Contents
  BY RowFields DEF EditStates
<1>4. /\ bucket' \in [artwork : SUBSET Contents, files : SUBSET Contents, current : Contents]
      /\ bucket'.artwork = bucket.artwork /\ bucket'.files = bucket.files
      /\ bucket'.current = old.after.text
  BY <1>1, <1>3 DEF PublishMetadata, PublishedText, IssuerInv, IssuerTypeOK
<1>5. PICK e \in EditStates : e.phase = "done" /\ edit' = [edit EXCEPT ![r] = e]
  <2> DEFINE new == [old EXCEPT !.phase = "done"]
  <2>1. new \in EditStates /\ new.phase = "done"
    BY DEF EditStates
  <2>2. edit' = [edit EXCEPT ![r] = new]
    BY <1>1 DEF PublishMetadata
  <2> QED
    BY <2>1, <2>2
<1>6. IssuerTypeOK'
  BY <1>2, <1>4, <1>5 DEF IssuerInv, IssuerTypeOK, EditStates
<1>7. EveryChangeIsAudited'
  BY <1>2 DEF IssuerInv, EveryChangeIsAudited
<1>8. PublishedFilesExist'
  BY <1>1, <1>2, <1>4 DEF IssuerInv, PublishedFilesExist, EditStands
<1>9. OnePublishes'
  BY <1>1, <1>2, <1>4, <1>5 DEF IssuerInv, OnePublishes, IssuerTypeOK
<1>10. EditStands(e)' /\ \A f \in EditStates : EditStands(f) => EditStands(f)'
  BY <1>2, <1>4, <1>5 DEF EditStands
<1>11. \A q \in Edits : EditStands(edit[q])'
  BY <1>5, <1>10 DEF IssuerInv, IssuerTypeOK, EditStates
<1> QED
  BY <1>6, <1>7, <1>8, <1>9, <1>11 DEF IssuerInv

LEMMA NextMillisecondKeeps ==
  ASSUME IssuerInv, NextMillisecond
  PROVE  IssuerInv'
<1>1. /\ time' = time + 1 /\ time < MaxTime /\ time \in 0..MaxTime
      /\ UNCHANGED <<event, revisions, bucket, edit, replaced, crossed, editFaults>>
  BY DEF NextMillisecond, IssuerInv, IssuerTypeOK
<1>2. time' \in 0..MaxTime /\ time' > time
  BY <1>1, IssuerConstants DEF IssuerConstants
<1>3. IssuerTypeOK'
  BY <1>1, <1>2 DEF IssuerInv, IssuerTypeOK
<1>4. EveryChangeIsAudited' /\ PublishedFilesExist' /\ OnePublishes'
  BY <1>1 DEF IssuerInv, EveryChangeIsAudited, PublishedFilesExist, OnePublishes
<1>5. ASSUME NEW f \in EditStates, EditStands(f) PROVE EditStands(f)'
  <2>1. f.payload.version \in Nat /\ time \in Nat /\ (f.payload.version < time => f.payload.version < time')
    BY <1>1, <1>2, PayloadFields, IssuerConstants DEF EditStates, IssuerConstants
  <2> QED
    BY <1>1, <1>5, <2>1 DEF EditStands
<1>6. \A q \in Edits : EditStands(edit[q])'
  BY <1>1, <1>5 DEF IssuerInv, IssuerTypeOK, EditStates
<1> QED
  BY <1>3, <1>4, <1>6 DEF IssuerInv

\* The invariant of the issuers' requests: while the row has the version a
\* request named, it is the row the request read, and its files are stored.
THEOREM IssuerInvariance == IssuerSpec => []IssuerInv
<1>1. ASSUME IssuerInv, [IssuerNext]_issuerVars PROVE IssuerInv'
  <2>1. CASE IssuerNext
    BY <1>1, <2>1, ReceiveKeeps, LoadKeeps, StoreFilesKeeps, StampKeeps, CommitKeeps,
       PublishMetadataKeeps, EditFailsKeeps, NextMillisecondKeeps DEF IssuerNext
  <2>2. CASE UNCHANGED issuerVars
    BY <1>1, <2>2 DEF IssuerInv, IssuerTypeOK, EveryChangeIsAudited, PublishedFilesExist,
                      OnePublishes, EditStands, issuerVars
  <2> QED
    BY <1>1, <2>1, <2>2
<1> QED
  BY <1>1, IssuerInitially, PTL DEF IssuerSpec

\* Every replaced row is in the audit log with the row that replaced it,
\* although a version is only a millisecond and two requests may draw the same
\* one; the files that the row and metadata.json name exist; and metadata.json
\* catches up with the row unless something failed or crossed (the batch of
\* updateIssuerEvent and transitionIssuerEvent, and the files around it).
THEOREM IssuerChangesAreKept == IssuerSpec => []ChangesAreKept
BY IssuerInvariance, IssuerSuffices, PTL

------------------------------------------------------------------------------
(* The gas monitor.                                                          *)

StateRows ==
  [owner : Owners, left : Released..Lease \cup Released..Fence,
   wait : Released..(Interval + Retry), level : Levels, ago : 0..Forgotten]
RunRows ==
  [phase : Phases, age : 0..MaxAge, prev : Levels, sent : 0..Forgotten,
   balance : Balances \cup {0}, level : Levels, notified : BOOLEAN]

Working(run) == run.phase \notin {"idle", "claim"}

\* What run r may rely on, of what it read and of the lease. Without faults it
\* owns the lease as long as it works, and what it told is in its locals.
RunStands(r, run) ==
  /\ run.phase = "idle" => run.age = 0
  /\ run.phase = "claim" => run.age < Lease
  /\ row.owner = r => Working(run)
  /\ row.owner = r /\ run.phase \in {"rpc", "report", "fence", "send", "record"} =>
       run.prev = row.level /\ run.sent = row.ago
  /\ run.phase = "send" => row.owner = r /\ row.left > 0
  /\ run.phase \in {"fence", "send"} => NotificationDue(run.level, run.prev, run.sent - run.age)
  /\ run.notified => run.phase = "record"
  /\ gasFaults = 0 =>
       /\ Working(run) => row.owner = r
       /\ run.phase # "catch"
       /\ run.notified => told.level = run.level /\ told.ago = run.age

\* Without faults the row says what was told, unless the run that told it has
\* still to record it, and a lease that is owned has not run out.
RowStands ==
  gasFaults = 0 =>
    /\ row.owner \in GasRuns => row.left > 0
    /\ (\A r \in GasRuns : ~gasRun[r].notified) =>
         told.level = row.level /\ told.ago = row.ago

GasInv == GasTypeOK /\ RowStands /\ \A r \in GasRuns : RunStands(r, gasRun[r])

LEMMA GasNumbers ==
  /\ Lease \in Nat /\ Lease > 0 /\ Fence \in Nat /\ Fence > 0 /\ Retry \in Nat
  /\ Interval \in Nat /\ Day \in Nat /\ MaxAge \in Nat /\ MaxGasFaults \in Nat
  /\ Released \in Int /\ Released <= 0 /\ Forgotten \in Nat /\ MaxAge <= Forgotten
  /\ Released = -MaxAge /\ Forgotten = Day + MaxAge
BY GasDurations DEF GasDurations, Released, Forgotten

LEMMA GasSuffices == GasInv => AlertsAreRight
<1> SUFFICES ASSUME GasInv PROVE AlertsAreRight
  OBVIOUS
<1>1. NoStaleAlert
  BY DEF GasInv, RunStands, NoStaleAlert
<1>2. ASSUME gasFaults = 0, NEW r \in GasRuns, gasRun[r].phase = "send"
      PROVE  NotificationDue(gasRun[r].level, told.level, told.ago - gasRun[r].age)
  <2>1. \A q \in GasRuns : ~gasRun[q].notified
    BY <1>2 DEF GasInv, RunStands, Working
  <2> QED
    BY <1>1, <1>2, <2>1 DEF GasInv, RunStands, RowStands, NoStaleAlert
<1> QED
  BY <1>1, <1>2 DEF GasInv, AlertsAreRight, AlertIsDue

LEMMA GasInitially == GasInit => GasInv
<1> SUFFICES ASSUME GasInit PROVE GasInv
  OBVIOUS
<1>1. Idle \in RunRows
  BY GasNumbers DEF Idle, RunRows, Phases, Levels
<1>2. row \in StateRows
  BY GasNumbers DEF GasInit, StateRows, Owners, Levels
<1>3. told \in [level : Levels, ago : 0..Forgotten]
  BY GasNumbers DEF GasInit, Levels
<1>4. GasTypeOK
  BY <1>1, <1>2, <1>3, GasNumbers DEF GasInit, GasTypeOK, StateRows, RunRows
<1>5. RowStands
  BY NobodyIsNoRun DEF NobodyIsNoRun, GasInit, RowStands
<1>6. \A r \in GasRuns : RunStands(r, gasRun[r])
  BY NobodyIsNoRun DEF NobodyIsNoRun, GasInit, RunStands, Idle, Working
<1> QED
  BY <1>4, <1>5, <1>6 DEF GasInv

\* A run goes on; the row and what was told are as they were.
LEMMA RunMoves ==
  ASSUME GasInv, NEW r \in GasRuns, NEW run \in RunRows,
         gasRun' = [gasRun EXCEPT ![r] = run], RunStands(r, run)',
         UNCHANGED <<row, told, balance>>,
         gasFaults' \in 0..MaxGasFaults, gasFaults' = 0 => gasFaults = 0,
         gasFaults' = 0 => (gasRun[r].notified <=> run.notified)
  PROVE  GasInv'
<1>1. GasTypeOK'
  BY DEF GasInv, GasTypeOK, RunRows
<1>2. gasRun'[r] = run /\ \A q \in GasRuns \ {r} : gasRun'[q] = gasRun[q]
  BY DEF GasInv, GasTypeOK
<1>3. RowStands'
  <2>1. gasFaults' = 0 => \A q \in GasRuns : gasRun'[q].notified <=> gasRun[q].notified
    BY <1>2
  <2> QED
    BY <2>1 DEF GasInv, RowStands
<1>4. \A q, f : RunStands(q, f) => RunStands(q, f)'
  BY DEF RunStands, Working
<1>5. \A q \in GasRuns : RunStands(q, gasRun[q])'
  BY <1>2, <1>4 DEF GasInv
<1> QED
  BY <1>1, <1>3, <1>5 DEF GasInv

\* A run takes or extends the lease while no other is about to send.
LEMMA LeaseTaken ==
  ASSUME GasInv, NEW r \in GasRuns, NEW run \in RunRows,
         gasRun' = [gasRun EXCEPT ![r] = run], RunStands(r, run)',
         row' \in StateRows, row'.owner = r, row'.left > 0,
         row'.level = row.level, row'.ago = row.ago,
         \A q \in GasRuns \ {r} : gasRun[q].phase # "send",
         gasFaults = 0 => \A q \in GasRuns \ {r} : ~Working(gasRun[q]),
         UNCHANGED <<told, balance, gasFaults>>,
         gasRun[r].notified <=> run.notified
  PROVE  GasInv'
<1>1. GasTypeOK'
  BY DEF GasInv, GasTypeOK, RunRows, StateRows
<1>2. gasRun'[r] = run /\ \A q \in GasRuns \ {r} : gasRun'[q] = gasRun[q]
  BY DEF GasInv, GasTypeOK
<1>3. RowStands'
  <2>1. \A q \in GasRuns : gasRun'[q].notified <=> gasRun[q].notified
    BY <1>2
  <2> QED
    BY <2>1 DEF GasInv, RowStands
<1>4. \A q \in GasRuns \ {r} : RunStands(q, gasRun[q])'
  BY <1>2 DEF GasInv, RunStands, Working
<1> QED
  BY <1>1, <1>2, <1>3, <1>4 DEF GasInv

\* A run ends. If it owned the lease it owns it no more, and without faults the
\* row says what was told; if it did not, the row is as it was.
LEMMA RunEnds ==
  ASSUME GasInv, NEW r \in GasRuns, Finish(r), row' \in StateRows,
         row.owner # r => row' = row, row.owner = r => row'.owner \notin GasRuns,
         UNCHANGED <<told, balance>>,
         gasFaults' \in 0..MaxGasFaults, gasFaults' = 0 => gasFaults = 0,
         gasFaults' = 0 /\ (\A q \in GasRuns \ {r} : ~gasRun[q].notified) =>
           told.level = row'.level /\ told.ago = row'.ago
  PROVE  GasInv'
<1>1. Idle \in RunRows /\ ~Idle.notified /\ Idle.phase = "idle" /\ Idle.age = 0
  BY GasNumbers DEF Idle, RunRows, Phases, Levels
<1>2. GasTypeOK'
  BY <1>1 DEF GasInv, GasTypeOK, RunRows, StateRows, Finish
<1>3. gasRun'[r] = Idle /\ \A q \in GasRuns \ {r} : gasRun'[q] = gasRun[q]
  BY DEF GasInv, GasTypeOK, Finish
<1>4. RowStands'
  BY <1>3 DEF GasInv, RowStands
<1>5. row'.owner # r
  BY DEF GasInv
<1>6. RunStands(r, gasRun[r])'
  BY <1>1, <1>3, <1>5 DEF RunStands, Working
<1>7. \A q \in GasRuns \ {r} : RunStands(q, gasRun[q])'
  BY <1>3 DEF GasInv, RunStands, Working
<1> QED
  BY <1>2, <1>4, <1>6, <1>7 DEF GasInv

\* What a run needs to know of itself in every step.
LEMMA RunFacts ==
  ASSUME GasInv, NEW r \in GasRuns
  PROVE  /\ gasRun \in [GasRuns -> RunRows] /\ gasRun[r] \in RunRows /\ RunStands(r, gasRun[r])
         /\ row \in StateRows /\ gasFaults \in 0..MaxGasFaults /\ GasTypeOK
         /\ gasRun[r].age \in Nat /\ gasRun[r].age <= MaxAge
BY GasNumbers DEF GasInv, GasTypeOK, RunRows, StateRows

LEMMA StartRunKeeps ==
  ASSUME GasInv, NEW r \in GasRuns, StartRun(r)
  PROVE  GasInv'
<1>1. PICK old \in RunRows : old = gasRun[r] /\ RunStands(r, old) /\ old.phase = "idle"
  BY RunFacts DEF StartRun
<1> DEFINE new == [old EXCEPT !.phase = "claim"]
<1>2. /\ new \in RunRows /\ new.phase = "claim" /\ new.age = old.age
      /\ new.notified = old.notified
  BY DEF RunRows, Phases
<1>3. /\ gasRun' = [gasRun EXCEPT ![r] = new]
      /\ UNCHANGED <<row, balance, told, gasFaults>>
  BY <1>1 DEF StartRun, Goto
<1> HIDE DEF new
<1>4. RunStands(r, new)'
  BY <1>1, <1>2, <1>3, GasNumbers DEF RunStands, Working
<1> QED
  BY <1>1, <1>2, <1>3, <1>4, RunFacts, RunMoves

LEMMA ReadStateKeeps ==
  ASSUME GasInv, NEW r \in GasRuns, ReadState(r)
  PROVE  GasInv'
<1>1. PICK old \in RunRows : old = gasRun[r] /\ RunStands(r, old) /\ old.phase = "read"
  BY RunFacts DEF ReadState
<1>2. PICK run \in RunRows :
        /\ run.phase = "rpc" /\ run.prev = row.level /\ run.sent = row.ago
        /\ run.notified = old.notified
        /\ gasRun' = [gasRun EXCEPT ![r] = run]
  <2> DEFINE new == [old EXCEPT !.phase = "rpc", !.prev = row.level, !.sent = row.ago]
  <2>1. row.level \in Levels /\ row.ago \in 0..Forgotten
    BY RunFacts DEF StateRows
  <2>2. /\ new \in RunRows /\ new.phase = "rpc" /\ new.prev = row.level /\ new.sent = row.ago
        /\ new.notified = old.notified
    BY <2>1 DEF RunRows, Phases
  <2>3. gasRun' = [gasRun EXCEPT ![r] = new]
    BY <1>1, RunFacts DEF ReadState
  <2> QED
    BY <2>2, <2>3
<1>3. UNCHANGED <<row, balance, told, gasFaults>>
  BY DEF ReadState
<1>4. RunStands(r, run)'
  BY <1>1, <1>2, <1>3 DEF RunStands, Working
<1> QED
  BY <1>1, <1>2, <1>3, <1>4, RunFacts, RunMoves

LEMMA ReadBalanceKeeps ==
  ASSUME GasInv, NEW r \in GasRuns, ReadBalance(r)
  PROVE  GasInv'
<1>1. PICK old \in RunRows : old = gasRun[r] /\ RunStands(r, old) /\ old.phase = "rpc"
  BY RunFacts DEF ReadBalance
<1>2. PICK run \in RunRows :
        /\ run.phase = "report" /\ run.prev = old.prev /\ run.sent = old.sent
        /\ run.notified = old.notified
        /\ gasRun' = [gasRun EXCEPT ![r] = run]
  <2> DEFINE new == [old EXCEPT !.phase = "report", !.balance = balance]
  <2>1. balance \in Balances
    BY RunFacts DEF GasTypeOK
  <2>2. /\ new \in RunRows /\ new.phase = "report" /\ new.prev = old.prev
        /\ new.sent = old.sent /\ new.notified = old.notified
    BY <2>1 DEF RunRows, Phases
  <2>3. gasRun' = [gasRun EXCEPT ![r] = new]
    BY <1>1, RunFacts DEF ReadBalance
  <2> QED
    BY <2>2, <2>3
<1>3. UNCHANGED <<row, balance, told, gasFaults>>
  BY DEF ReadBalance
<1>4. RunStands(r, run)'
  BY <1>1, <1>2, <1>3 DEF RunStands, Working
<1> QED
  BY <1>1, <1>2, <1>3, <1>4, RunFacts, RunMoves

LEMMA CollectReportKeeps ==
  ASSUME GasInv, NEW r \in GasRuns, CollectReport(r)
  PROVE  GasInv'
<1>1. PICK old \in RunRows : old = gasRun[r] /\ RunStands(r, old) /\ old.phase = "report"
  BY RunFacts DEF CollectReport
<1> DEFINE level == AlertLevel(old.balance, old.prev)
           due == NotificationDue(level, old.prev, old.sent - old.age)
           phase == IF due THEN "fence" ELSE "record"
<1>2. level \in Levels /\ phase \in {"fence", "record"} /\ (phase = "fence" <=> due)
  BY DEF AlertLevel, Levels
<1>3. /\ gasRun' = [gasRun EXCEPT ![r].level = level, ![r].phase = phase]
      /\ UNCHANGED <<row, balance, told, gasFaults>>
  BY <1>1 DEF CollectReport
<1> HIDE DEF level, phase
<1>4. PICK run \in RunRows :
        /\ run.phase = phase /\ run.level = level /\ run.prev = old.prev /\ run.sent = old.sent
        /\ run.age = old.age /\ run.notified = old.notified
        /\ gasRun' = [gasRun EXCEPT ![r] = run]
  <2> DEFINE new == [old EXCEPT !.level = level, !.phase = phase]
  <2>1. /\ new \in RunRows /\ new.phase = phase /\ new.level = level /\ new.prev = old.prev
        /\ new.sent = old.sent /\ new.age = old.age /\ new.notified = old.notified
    BY <1>2 DEF RunRows, Phases
  <2>2. gasRun' = [gasRun EXCEPT ![r] = new]
    BY <1>1, <1>3, RunFacts
  <2> QED
    BY <2>1, <2>2
<1>5. RunStands(r, run)'
  BY <1>1, <1>2, <1>3, <1>4 DEF RunStands, Working
<1> QED
  BY <1>1, <1>3, <1>4, <1>5, RunFacts, RunMoves

LEMMA ClaimLeaseKeeps ==
  ASSUME GasInv, NEW r \in GasRuns, ClaimLease(r)
  PROVE  GasInv'
<1>1. PICK old \in RunRows :
        /\ old = gasRun[r] /\ RunStands(r, old) /\ old.phase = "claim"
        /\ old.age \in Nat /\ old.age <= MaxAge /\ old.age < Lease
  BY RunFacts DEF ClaimLease, RunStands
<1>2. UNCHANGED <<balance, told, gasFaults>>
  BY DEF ClaimLease
<1>3. CASE ~ (row.wait <= -old.age /\ row.left <= -old.age)
  <2>1. Finish(r) /\ UNCHANGED row /\ row.owner # r
    BY <1>1, <1>3 DEF ClaimLease, RunStands, Working
  <2>2. ~ old.notified
    BY <1>1 DEF RunStands
  <2> QED
    BY <1>1, <1>2, <2>1, <2>2, RunFacts, RunEnds DEF GasInv, RowStands
<1>4. CASE row.wait <= -old.age /\ row.left <= -old.age
  <2>1. /\ row' = [row EXCEPT !.owner = r, !.left = LeaseLeft(old.age)]
        /\ gasRun' = [gasRun EXCEPT ![r].phase = "read"]
    BY <1>1, <1>4 DEF ClaimLease, Goto
  <2>2. /\ LeaseLeft(old.age) \in Released..Lease /\ LeaseLeft(old.age) > 0
        /\ row.left \in Int /\ row.left <= 0
    <3>1. row.left \in Int
      BY RunFacts, GasNumbers DEF StateRows
    <3> QED
      BY <1>1, <1>4, <3>1, GasNumbers DEF LeaseLeft
  <2>3. /\ row' \in StateRows /\ row'.owner = r /\ row'.left = LeaseLeft(old.age)
        /\ row'.level = row.level /\ row'.ago = row.ago
    BY <2>1, <2>2, RunFacts DEF StateRows, Owners
  <2> DEFINE new == [old EXCEPT !.phase = "read"]
  <2>4. /\ new \in RunRows /\ new.phase = "read" /\ new.notified = old.notified
    BY DEF RunRows, Phases
  <2>5. gasRun' = [gasRun EXCEPT ![r] = new]
    BY <1>1, <2>1
  <2> HIDE DEF new
  <2>6. \A q \in GasRuns : gasRun[q].phase # "send"
    BY <2>2 DEF GasInv, RunStands
  <2>7. gasFaults = 0 => \A q \in GasRuns \ {r} : ~Working(gasRun[q])
    BY <2>2 DEF GasInv, RunStands, RowStands
  <2>8. RunStands(r, new)'
    BY <1>1, <1>2, <2>3, <2>4 DEF RunStands, Working
  <2> QED
    BY <1>1, <1>2, <2>2, <2>3, <2>4, <2>5, <2>6, <2>7, <2>8, LeaseTaken
<1> QED
  BY <1>3, <1>4

\* A run that leaves the row to nobody.
LEMMA WithoutOwnerRow ==
  ASSUME GasInv, NEW r \in GasRuns
  PROVE  /\ WithoutOwner(r) \in StateRows
         /\ row.owner # r => WithoutOwner(r) = row
         /\ row.owner = r => WithoutOwner(r).owner \notin GasRuns
BY RunFacts, NobodyIsNoRun DEF WithoutOwner, StateRows, Owners, NobodyIsNoRun

LEMMA TakeFenceKeeps ==
  ASSUME GasInv, NEW r \in GasRuns, TakeFence(r)
  PROVE  GasInv'
<1>1. PICK old \in RunRows : old = gasRun[r] /\ RunStands(r, old) /\ old.phase = "fence"
  BY RunFacts DEF TakeFence
<1>2. UNCHANGED <<balance, told, gasFaults>>
  BY DEF TakeFence
<1>3. CASE FenceHeld(r)
  <2>1. row.owner = r /\ row' = [row EXCEPT !.left = Fence]
         /\ gasRun' = [gasRun EXCEPT ![r].phase = "send"]
    BY <1>3 DEF TakeFence, FenceHeld, Goto
  <2>2. /\ row' \in StateRows /\ row'.owner = r /\ row'.left = Fence /\ row'.left > 0
        /\ row'.level = row.level /\ row'.ago = row.ago
    <3>1. Fence \in Released..Fence
      BY GasNumbers
    <3> QED
      BY <2>1, <3>1, RunFacts, GasNumbers DEF StateRows
  <2> DEFINE new == [old EXCEPT !.phase = "send"]
  <2>3. /\ new \in RunRows /\ new.phase = "send" /\ new.notified = old.notified
        /\ new.prev = old.prev /\ new.sent = old.sent /\ new.age = old.age
        /\ new.level = old.level
    BY DEF RunRows, Phases
  <2>4. gasRun' = [gasRun EXCEPT ![r] = new]
    BY <1>1, <2>1
  <2> HIDE DEF new
  <2>5. \A q \in GasRuns \ {r} : gasRun[q].phase # "send"
    BY <2>1 DEF GasInv, RunStands
  <2>6. gasFaults = 0 => \A q \in GasRuns \ {r} : ~Working(gasRun[q])
    BY <2>1 DEF GasInv, RunStands
  <2>7. RunStands(r, new)'
    BY <1>1, <1>2, <2>1, <2>2, <2>3 DEF RunStands, Working
  <2> QED
    BY <1>1, <1>2, <2>2, <2>3, <2>4, <2>5, <2>6, <2>7, LeaseTaken
<1>4. CASE ~ FenceHeld(r)
  <2>1. row' = WithoutOwner(r) /\ Finish(r)
    BY <1>4 DEF TakeFence
  <2>2. gasFaults # 0
    BY <1>1, <1>4 DEF RunStands, Working, FenceHeld, GasInv, RowStands
  <2> QED
    BY <1>2, <2>1, <2>2, RunFacts, WithoutOwnerRow, RunEnds
<1> QED
  BY <1>3, <1>4

LEMMA SendKeeps ==
  ASSUME GasInv, NEW r \in GasRuns, Send(r)
  PROVE  GasInv'
<1>1. PICK old \in RunRows : old = gasRun[r] /\ RunStands(r, old) /\ old.phase = "send"
  BY RunFacts DEF Send
<1>2. UNCHANGED <<row, balance, gasFaults>>
  BY DEF Send
<1> DEFINE new == [old EXCEPT !.phase = "record", !.notified = TRUE]
<1>3. /\ new \in RunRows /\ new.phase = "record" /\ new.notified
      /\ new.prev = old.prev /\ new.sent = old.sent /\ new.age = old.age
      /\ new.level = old.level
  BY DEF RunRows, Phases
<1>4. gasRun' = [gasRun EXCEPT ![r] = new]
  BY <1>1 DEF Send
<1>5. old.level \in Levels /\ old.age \in 0..Forgotten
  BY GasNumbers DEF RunRows
<1>6. told' = [level |-> old.level, ago |-> old.age]
  BY <1>1 DEF Send
<1> HIDE DEF new
<1>7. GasTypeOK'
  BY <1>2, <1>3, <1>4, <1>5, <1>6 DEF GasInv, GasTypeOK, RunRows
<1>8. gasRun'[r] = new /\ \A q \in GasRuns \ {r} : gasRun'[q] = gasRun[q]
  BY <1>4, RunFacts
<1>9. row.owner = r
  BY <1>1 DEF RunStands
<1>10. RowStands'
  BY <1>2, <1>3, <1>8 DEF GasInv, RowStands
<1>11. RunStands(r, gasRun[r])'
  BY <1>1, <1>2, <1>3, <1>6, <1>8 DEF RunStands, Working
<1>12. ASSUME NEW q \in GasRuns \ {r} PROVE RunStands(q, gasRun[q])'
  <2>1. gasFaults = 0 => ~gasRun[q].notified
    BY <1>9 DEF GasInv, RunStands, Working
  <2> QED
    BY <1>2, <1>8, <2>1 DEF GasInv, RunStands, Working
<1> QED
  BY <1>7, <1>10, <1>11, <1>12 DEF GasInv

LEMMA RecordReportKeeps ==
  ASSUME GasInv, NEW r \in GasRuns, NEW missing \in BOOLEAN, RecordReport(r, missing)
  PROVE  GasInv'
<1>1. PICK old \in RunRows :
        old = gasRun[r] /\ RunStands(r, old) /\ old.phase = "record"
  BY RunFacts DEF RecordReport
<1> DEFINE wait == (IF missing THEN Retry ELSE Interval) - old.age
           level == IF old.notified THEN old.level ELSE row.level
           ago == IF old.notified THEN old.age ELSE row.ago
           new == [owner |-> "nobody", left |-> Released, wait |-> wait, level |-> level,
                   ago |-> ago]
<1>2. /\ row' = IF row.owner # r THEN row ELSE new
      /\ Finish(r) /\ UNCHANGED <<balance, told, gasFaults>>
  BY <1>1 DEF RecordReport, SentAt
<1>3. wait \in Released..(Interval + Retry) /\ level \in Levels /\ ago \in 0..Forgotten
  <2>1. old.age \in 0..MaxAge /\ old.level \in Levels /\ old.age \in Nat
    BY GasNumbers DEF RunRows
  <2>2. row.level \in Levels /\ row.ago \in 0..Forgotten
    BY RunFacts DEF StateRows
  <2> QED
    BY <2>1, <2>2, GasNumbers
<1>4. Released \in Released..Fence
  BY GasNumbers
<1>5. /\ new \in StateRows /\ new.owner \notin GasRuns /\ new.level = level /\ new.ago = ago
  <2> HIDE DEF wait, level, ago
  <2> QED
    BY <1>3, <1>4, NobodyIsNoRun DEF StateRows, Owners, NobodyIsNoRun
<1>6. gasFaults = 0 /\ (\A q \in GasRuns \ {r} : ~gasRun[q].notified) =>
        /\ row.owner = r
        /\ told.level = level /\ told.ago = ago
  BY <1>1 DEF GasInv, RunStands, RowStands, Working
<1> HIDE DEF new, level, ago
<1> QED
  BY <1>2, <1>5, <1>6, RunFacts, RunEnds

LEMMA RecordFailureKeeps ==
  ASSUME GasInv, NEW r \in GasRuns, RecordFailure(r)
  PROVE  GasInv'
<1>1. PICK old \in RunRows :
        old = gasRun[r] /\ RunStands(r, old) /\ old.phase = "catch"
  BY RunFacts DEF RecordFailure
<1> DEFINE new == [row EXCEPT !.owner = "nobody", !.left = Released, !.wait = Retry - old.age]
<1>2. /\ row' = IF row.owner # r THEN row ELSE new
      /\ Finish(r) /\ UNCHANGED <<balance, told, gasFaults>>
  BY <1>1 DEF RecordFailure
<1>3. Retry - old.age \in Released..(Interval + Retry) /\ Released \in Released..Fence
  <2>1. old.age \in 0..MaxAge
    BY DEF RunRows
  <2> QED
    BY <2>1, GasNumbers
<1>4. new \in StateRows /\ new.owner \notin GasRuns
  BY <1>3, RunFacts, NobodyIsNoRun DEF StateRows, Owners, NobodyIsNoRun
<1>5. gasFaults # 0
  BY <1>1 DEF RunStands
<1> HIDE DEF new
<1> QED
  BY <1>2, <1>4, <1>5, RunFacts, RunEnds

LEMMA FaultCounts ==
  ASSUME GasInv, Fault
  PROVE  gasFaults' \in 0..MaxGasFaults /\ gasFaults' # 0
<1>1. gasFaults \in 0..MaxGasFaults /\ gasFaults < MaxGasFaults /\ gasFaults' = gasFaults + 1
  BY RunFacts DEF Fault, GasInv, GasTypeOK
<1> QED
  BY <1>1, GasNumbers

LEMMA CallFailsKeeps ==
  ASSUME GasInv, NEW r \in GasRuns, CallFails(r)
  PROVE  GasInv'
<1>1. PICK old \in RunRows :
        /\ old = gasRun[r] /\ RunStands(r, old) /\ old.phase \in {"read", "rpc", "report"}
  BY RunFacts DEF CallFails
<1> DEFINE new == [old EXCEPT !.phase = "catch"]
<1>2. new \in RunRows /\ new.phase = "catch" /\ new.notified = old.notified
  BY DEF RunRows, Phases
<1>3. /\ gasRun' = [gasRun EXCEPT ![r] = new] /\ UNCHANGED <<row, balance, told>>
      /\ gasFaults' \in 0..MaxGasFaults /\ gasFaults' # 0
  BY <1>1, FaultCounts DEF CallFails, Goto
<1> HIDE DEF new
<1>4. RunStands(r, new)'
  BY <1>1, <1>2, <1>3 DEF RunStands, Working
<1> QED
  BY <1>2, <1>3, <1>4, RunMoves

LEMMA SendFailsKeeps ==
  ASSUME GasInv, NEW r \in GasRuns, SendFails(r)
  PROVE  GasInv'
<1>1. PICK old \in RunRows : old = gasRun[r] /\ RunStands(r, old) /\ old.phase = "send"
  BY RunFacts DEF SendFails
<1> DEFINE new == [old EXCEPT !.phase = "catch"]
<1>2. new \in RunRows /\ new.phase = "catch" /\ new.notified = old.notified
  BY DEF RunRows, Phases
<1>3. /\ gasRun' = [gasRun EXCEPT ![r] = new] /\ UNCHANGED <<row, balance>>
      /\ gasFaults' \in 0..MaxGasFaults /\ gasFaults' # 0
      /\ told' \in {told, [level |-> old.level, ago |-> old.age]}
  BY <1>1, FaultCounts DEF SendFails, Goto
<1> HIDE DEF new
<1>4. old.level \in Levels /\ old.age \in 0..Forgotten
  BY GasNumbers DEF RunRows
<1>5. GasTypeOK'
  BY <1>2, <1>3, <1>4 DEF GasInv, GasTypeOK, RunRows
<1>6. gasRun'[r] = new /\ \A q \in GasRuns \ {r} : gasRun'[q] = gasRun[q]
  BY <1>3, RunFacts
<1>7. RunStands(r, gasRun[r])'
  BY <1>1, <1>2, <1>3, <1>6 DEF RunStands, Working
<1>8. \A q \in GasRuns \ {r} : RunStands(q, gasRun[q])'
  BY <1>3, <1>6 DEF GasInv, RunStands, Working
<1> QED
  BY <1>3, <1>5, <1>7, <1>8 DEF GasInv, RowStands

LEMMA GasCrashKeeps ==
  ASSUME GasInv, NEW r \in GasRuns, GasCrash(r)
  PROVE  GasInv'
BY FaultCounts, WithoutOwnerRow, RunEnds DEF GasCrash

LEMMA SpendOrRefillKeeps ==
  ASSUME GasInv, SpendOrRefill
  PROVE  GasInv'
<1>1. GasTypeOK'
  BY DEF GasInv, GasTypeOK, SpendOrRefill
<1> QED
  BY <1>1 DEF GasInv, RowStands, RunStands, Working, SpendOrRefill

\* Time passes: what was due stays due, for a message that is older than a day
\* for one run at its youngest is older than a day for every run.
LEMMA DueStaysDue ==
  ASSUME NEW level, NEW prev, NEW sent \in 0..Forgotten, NEW age \in Nat, age < MaxAge,
         NotificationDue(level, prev, sent - age)
  PROVE  NotificationDue(level, prev, Older(sent, Forgotten) - (age + 1))
<1>1. sent - age >= Day => Older(sent, Forgotten) - (age + 1) >= Day
  BY GasNumbers DEF Older
<1> QED
  BY <1>1 DEF NotificationDue

LEMMA GasTickKeeps ==
  ASSUME GasInv, GasTick
  PROVE  GasInv'
<1>1. /\ row' = [row EXCEPT !.left = Nearer(row.left), !.wait = Nearer(row.wait),
                            !.ago = Older(row.ago, Forgotten)]
      /\ told' = [told EXCEPT !.ago = Older(told.ago, Forgotten)]
      /\ UNCHANGED balance
  BY DEF GasTick
<1>2. row \in StateRows /\ told \in [level : Levels, ago : 0..Forgotten]
  BY RunFacts DEF GasInv, GasTypeOK, StateRows
<1>3. /\ Nearer(row.left) \in Released..Lease \cup Released..Fence
      /\ Nearer(row.wait) \in Released..(Interval + Retry)
      /\ Older(row.ago, Forgotten) \in 0..Forgotten
      /\ Older(told.ago, Forgotten) \in 0..Forgotten
      /\ row.left > 1 => Nearer(row.left) > 0
  BY <1>2, GasNumbers DEF Nearer, Older, StateRows
<1>4. /\ row' \in StateRows /\ row'.owner = row.owner /\ row'.level = row.level
      /\ row'.left = Nearer(row.left) /\ row'.ago = Older(row.ago, Forgotten)
  BY <1>1, <1>2, <1>3 DEF StateRows
<1>5. /\ told' \in [level : Levels, ago : 0..Forgotten] /\ told'.level = told.level
      /\ told'.ago = Older(told.ago, Forgotten)
  BY <1>1, <1>2, <1>3
<1>6. /\ gasFaults' \in 0..MaxGasFaults
      /\ gasFaults' = 0 =>
           /\ gasFaults = 0
           /\ ~ (row.owner \in GasRuns /\ row.left = 1)
  <2>1. CASE row.owner \in GasRuns /\ row.left = 1
    BY <2>1, FaultCounts DEF GasTick
  <2>2. CASE ~ (row.owner \in GasRuns /\ row.left = 1)
    BY <2>2 DEF GasTick, GasInv, GasTypeOK
  <2> QED
    BY <2>1, <2>2
<1>7. ASSUME NEW r \in GasRuns, gasRun[r].phase # "idle"
      PROVE  /\ gasRun'[r] \in RunRows /\ gasRun'[r].phase = gasRun[r].phase
             /\ gasRun'[r].prev = gasRun[r].prev /\ gasRun'[r].level = gasRun[r].level
             /\ gasRun'[r].notified = gasRun[r].notified
             /\ gasRun'[r].sent = Older(gasRun[r].sent, Forgotten)
             /\ gasRun'[r].age = gasRun[r].age + 1 /\ gasRun[r].age < MaxAge
  <2>1. PICK old \in RunRows : old = gasRun[r] /\ old.age < MaxAge
    BY <1>7, RunFacts DEF GasTick
  <2>2. old.age + 1 \in 0..MaxAge /\ Older(old.sent, Forgotten) \in 0..Forgotten
    BY <2>1, GasNumbers DEF RunRows, Older
  <2> DEFINE new == [old EXCEPT !.age = old.age + 1, !.sent = Older(old.sent, Forgotten)]
  <2>3. gasRun'[r] = new
    BY <1>7, <2>1 DEF GasTick
  <2>4. /\ new \in RunRows /\ new.phase = old.phase /\ new.prev = old.prev
        /\ new.level = old.level /\ new.notified = old.notified
        /\ new.sent = Older(old.sent, Forgotten) /\ new.age = old.age + 1
    BY <2>2 DEF RunRows
  <2> QED
    BY <2>1, <2>3, <2>4
<1>8. ASSUME NEW r \in GasRuns, gasRun[r].phase = "idle"
      PROVE  gasRun'[r] = Idle /\ ~gasRun[r].notified
  BY <1>8 DEF GasTick, GasInv, RunStands
<1>9. Idle \in RunRows /\ ~Idle.notified /\ Idle.phase = "idle" /\ Idle.age = 0
  BY GasNumbers DEF Idle, RunRows, Phases, Levels
<1>10. GasTypeOK'
  <2>1. \A r \in GasRuns : gasRun'[r] \in RunRows
    BY <1>7, <1>8, <1>9
  <2>2. gasRun' \in [GasRuns -> RunRows]
    BY <2>1 DEF GasTick
  <2> QED
    BY <1>1, <1>4, <1>5, <1>6, <2>2 DEF GasInv, GasTypeOK, StateRows, RunRows
<1>11. \A r \in GasRuns : gasRun'[r].notified = gasRun[r].notified
  <2> SUFFICES ASSUME NEW r \in GasRuns PROVE gasRun'[r].notified = gasRun[r].notified
    OBVIOUS
  <2>1. CASE gasRun[r].phase # "idle"
    BY <1>7, <2>1
  <2>2. CASE gasRun[r].phase = "idle"
    <3>1. gasRun'[r].notified = FALSE
      BY <1>8, <2>2 DEF Idle
    <3>2. gasRun[r].notified \in BOOLEAN /\ ~gasRun[r].notified
      BY <1>8, <2>2, RunFacts DEF RunRows
    <3>3. gasRun[r].notified = FALSE
      BY <3>2
    <3> QED
      BY <3>1, <3>3
  <2> QED
    BY <2>1, <2>2
<1>12. row.left \in Int
  BY <1>2, GasNumbers DEF StateRows
<1>13. RowStands'
  <2> SUFFICES ASSUME gasFaults' = 0
               PROVE  /\ row'.owner \in GasRuns => row'.left > 0
                      /\ (\A r \in GasRuns : ~gasRun'[r].notified) =>
                           told'.level = row'.level /\ told'.ago = row'.ago
    BY DEF RowStands
  <2>1. row.owner \in GasRuns => row.left > 1
    BY <1>6, <1>12 DEF GasInv, RowStands
  <2>2. (\A r \in GasRuns : ~gasRun[r].notified) => told.level = row.level /\ told.ago = row.ago
    BY <1>6 DEF GasInv, RowStands
  <2> QED
    BY <1>3, <1>4, <1>5, <1>11, <2>1, <2>2
<1>14. ASSUME NEW r \in GasRuns, gasRun[r].phase = "idle" PROVE RunStands(r, gasRun[r])'
  <2>1. row.owner # r
    BY <1>14 DEF GasInv, RunStands, Working
  <2> QED
    BY <1>4, <1>8, <1>9, <1>14, <2>1 DEF RunStands, Working
<1>15. ASSUME NEW r \in GasRuns, gasRun[r].phase # "idle" PROVE RunStands(r, gasRun[r])'
  <2>1. PICK old \in RunRows : old = gasRun[r] /\ RunStands(r, old)
    BY RunFacts
  <2>2. PICK new \in RunRows :
          /\ new = gasRun'[r]
          /\ new.phase = old.phase /\ new.prev = old.prev /\ new.level = old.level
          /\ new.notified = old.notified /\ new.sent = Older(old.sent, Forgotten)
          /\ new.age = old.age + 1 /\ old.age < MaxAge
    BY <1>7, <1>15, <2>1
  <2>3. old.age \in Nat /\ old.sent \in 0..Forgotten /\ row.ago \in 0..Forgotten
    BY <1>2, GasNumbers DEF RunRows, StateRows
  <2>4. new.phase = "claim" => new.age < Lease
    BY <1>15, <2>1, <2>2 DEF GasTick
  <2>5. new.phase = "send" => row'.owner = r /\ row'.left > 0
    <3>1. old.phase = "send" => row.owner = r /\ row.left > 1
      BY <2>1 DEF GasTick, RunStands
    <3> QED
      BY <1>3, <1>4, <2>2, <3>1
  <2>6. new.phase \in {"fence", "send"} => NotificationDue(new.level, new.prev, new.sent - new.age)
    BY <2>1, <2>2, <2>3, DueStaysDue DEF RunStands
  <2>7. gasFaults' = 0 =>
          /\ Working(new) => row'.owner = r
          /\ new.phase # "catch"
          /\ new.notified => told'.level = new.level /\ told'.ago = new.age
    <3>1. gasFaults' = 0 => gasFaults = 0
      BY <1>6
    <3>2. told.ago = old.age => Older(told.ago, Forgotten) = old.age + 1
      BY <2>2, <2>3, GasNumbers DEF Older
    <3> QED
      BY <1>4, <1>5, <2>1, <2>2, <3>1, <3>2 DEF RunStands, Working
  <2>8. /\ row'.owner = r => Working(new)
        /\ row'.owner = r /\ new.phase \in {"rpc", "report", "fence", "send", "record"} =>
             new.prev = row'.level /\ new.sent = row'.ago
        /\ new.notified => new.phase = "record"
        /\ new.phase # "idle"
    BY <1>4, <1>15, <2>1, <2>2 DEF RunStands, Working
  <2> QED
    BY <2>2, <2>4, <2>5, <2>6, <2>7, <2>8 DEF RunStands
<1> QED
  BY <1>10, <1>13, <1>14, <1>15 DEF GasInv

\* The invariant of the monitor: what a run has read of the row stands as long
\* as it owns the lease, and without faults it owns it while it works.
THEOREM GasInvariance == GasSpec => []GasInv
<1>1. ASSUME GasInv, [GasNext]_gasVars PROVE GasInv'
  <2>1. CASE \E r \in GasRuns : StartRun(r) \/ GasStep(r)
    BY <1>1, <2>1, StartRunKeeps, ClaimLeaseKeeps, ReadStateKeeps, ReadBalanceKeeps,
       CollectReportKeeps, TakeFenceKeeps, SendKeeps, RecordFailureKeeps, RecordReportKeeps
       DEF GasStep
  <2>2. CASE \E r \in GasRuns : CallFails(r) \/ SendFails(r) \/ GasCrash(r)
    BY <1>1, <2>2, CallFailsKeeps, SendFailsKeeps, GasCrashKeeps
  <2>3. CASE SpendOrRefill
    BY <1>1, <2>3, SpendOrRefillKeeps
  <2>4. CASE GasTick
    BY <1>1, <2>4, GasTickKeeps
  <2>5. CASE UNCHANGED gasVars
    BY <1>1, <2>5 DEF GasInv, GasTypeOK, RowStands, RunStands, Working, gasVars
  <2> QED
    BY <1>1, <2>1, <2>2, <2>3, <2>4, <2>5 DEF GasNext
<1> QED
  BY <1>1, GasInitially, PTL DEF GasSpec

\* A message is sent only by the run that owns the lease, on the state that is
\* in the row, and as long as nothing failed it is due by what the operators
\* were really told last: the fence of runGasMonitor keeps overtaken runs from
\* sending, whatever the thresholds, balances and durations.
THEOREM GasAlertsAreRight == GasSpec => []AlertsAreRight
BY GasInvariance, GasSuffices, PTL

------------------------------------------------------------------------------
(* The receipts.                                                             *)

ReplyKinds == Outcomes \cup {"none"}
ReceiptRows == [state : RowStates, success : ReplyKinds, wait : 0..Long]
FillerRuns ==
  [phase : {"idle", "ask", "write"}, asked : SUBSET Hashes, final : SUBSET Hashes,
   answer : [Hashes -> ReplyKinds]]

\* What a run may rely on: the rows it asks for stay, what it knew to be final
\* stays final, and its answers are what the final chain says.
RunIsRight(run) ==
  /\ \A h \in run.asked : receipts[h].state # "absent"
  /\ run.final \subseteq finalized
  /\ \A h \in Hashes : run.answer[h] # "none" => h \in finalized /\ run.answer[h] = mined[h]

\* Final transactions have an outcome, and the queue has rows whose time came.
QueueIsRight ==
  /\ \A h \in finalized : mined[h] # "none"
  /\ \A h \in Hashes : receipts[h].state = "absent" => receipts[h].wait = 0
  /\ \A h \in ToSet(overdue) : receipts[h].state # "absent" /\ receipts[h].wait = 0

ReceiptsInv ==
  /\ RecordedIsFinal
  /\ QueueIsRight
  /\ \A f \in Fillers : RunIsRight(filler[f])

\* A sequence of the elements of a finite set.
LEMMA SeqOfSet ==
  ASSUME NEW S, IsFiniteSet(S), NEW q \in SetToSeqs(S)
  PROVE  q \in Seq(S) /\ IsInjective(q) /\ ToSet(q) \subseteq S
<1>1. Cardinality(S) \in Nat
  BY FS_CardinalityType
<1>2. q \in [1..Cardinality(S) -> S] /\ \A i, j \in 1..Cardinality(S) : i # j => q[i] # q[j]
  BY DEF SetToSeqs
<1>3. q \in Seq(S)
  BY <1>1, <1>2, IsASeq
<1>4. DOMAIN q = 1..Cardinality(S)
  BY <1>2
<1> QED
  BY <1>2, <1>3, <1>4 DEF IsInjective, ToSet

\* Two sequences without repetitions and without common elements, one after the
\* other.
LEMMA ConcatInjective ==
  ASSUME NEW S, NEW p \in Seq(S), NEW q \in Seq(S), IsInjective(p), IsInjective(q),
         ToSet(p) \cap ToSet(q) = {}
  PROVE  /\ p \o q \in Seq(S) /\ IsInjective(p \o q)
         /\ ToSet(p \o q) \subseteq ToSet(p) \cup ToSet(q)
<1>1. /\ p \o q \in Seq(S) /\ Len(p \o q) = Len(p) + Len(q)
      /\ Len(p) \in Nat /\ Len(q) \in Nat
      /\ DOMAIN p = 1..Len(p) /\ DOMAIN q = 1..Len(q)
      /\ DOMAIN (p \o q) = 1..(Len(p) + Len(q))
  BY ConcatProperties, LenProperties
<1>2. ASSUME NEW i \in 1..(Len(p) + Len(q))
      PROVE  \/ i \in 1..Len(p) /\ (p \o q)[i] = p[i]
             \/ i - Len(p) \in 1..Len(q) /\ (p \o q)[i] = q[i - Len(p)]
  BY <1>1, ConcatProperties
<1>3. \A i \in DOMAIN p : p[i] \in ToSet(p)
  BY DEF ToSet
<1>4. \A i \in DOMAIN q : q[i] \in ToSet(q)
  BY DEF ToSet
<1>5. ToSet(p \o q) \subseteq ToSet(p) \cup ToSet(q)
  BY <1>1, <1>2, <1>3, <1>4 DEF ToSet
<1>6. ASSUME NEW i \in 1..(Len(p) + Len(q)), NEW j \in 1..(Len(p) + Len(q)),
             (p \o q)[i] = (p \o q)[j]
      PROVE  i = j
  <2>1. CASE i \in 1..Len(p) /\ (p \o q)[i] = p[i]
    <3>1. j \in 1..Len(p) /\ (p \o q)[j] = p[j]
      BY <1>1, <1>2, <1>3, <1>4, <1>6, <2>1
    <3> QED
      BY <1>1, <1>6, <2>1, <3>1 DEF IsInjective
  <2>2. CASE i - Len(p) \in 1..Len(q) /\ (p \o q)[i] = q[i - Len(p)]
    <3>1. j - Len(p) \in 1..Len(q) /\ (p \o q)[j] = q[j - Len(p)]
      BY <1>1, <1>2, <1>3, <1>4, <1>6, <2>2
    <3>2. i - Len(p) = j - Len(p)
      BY <1>1, <1>6, <2>2, <3>1 DEF IsInjective
    <3> QED
      BY <1>1, <3>2
  <2> QED
    BY <1>2, <2>1, <2>2
<1>7. IsInjective(p \o q)
  BY <1>1, <1>6 DEF IsInjective
<1> QED
  BY <1>1, <1>5, <1>7

LEMMA ReceiptNumbers ==
  /\ Short \in 0..Long /\ Long \in Nat /\ Short > 0
  /\ Outcomes \subseteq ReplyKinds /\ "none" \in ReplyKinds /\ "none" \notin Outcomes
  /\ IsFiniteSet(Hashes) /\ MaxReceiptFaults \in Nat
BY ReceiptConstants DEF ReplyKinds, Outcomes

\* The part of the type that is about the queue.
QueueTypeOK == overdue \in Seq(Hashes) /\ IsInjective(overdue)

LEMMA TypeParts ==
  ReceiptsTypeOK <=>
    /\ submitted \subseteq Hashes /\ finalized \subseteq Hashes
    /\ mined \in [Hashes -> ReplyKinds] /\ receipts \in [Hashes -> ReceiptRows]
    /\ QueueTypeOK /\ filler \in [Fillers -> FillerRuns]
    /\ receiptFaults \in 0..MaxReceiptFaults
BY DEF ReceiptsTypeOK, ReceiptRows, FillerRuns, QueueTypeOK, ReplyKinds

LEMMA NothingAsked ==
  NotFilling \in FillerRuns /\ NotFilling.asked = {} /\ NotFilling.final = {}
  /\ \A h \in Hashes : NotFilling.answer[h] = "none"
BY ReceiptNumbers DEF NotFilling, NoAnswer, FillerRuns

LEMMA ReceiptsInitially ==
  ASSUME ReceiptsInit PROVE ReceiptsInv
<1>1. overdue \in Seq(Hashes) /\ DOMAIN overdue = {}
  BY EmptySeq, LenProperties DEF ReceiptsInit
<1>2. IsInjective(overdue) /\ ToSet(overdue) = {}
  BY <1>1 DEF IsInjective, ToSet
<1>3. ASSUME NEW h \in Hashes
      PROVE  receipts[h] = [state |-> "absent", success |-> "none", wait |-> 0]
  BY DEF ReceiptsInit
<1>4. [state |-> "absent", success |-> "none", wait |-> 0] \in ReceiptRows
  BY ReceiptNumbers DEF ReceiptRows, RowStates
<1>5. receipts \in [Hashes -> ReceiptRows]
  BY <1>3, <1>4 DEF ReceiptsInit
<1>6. ReceiptsTypeOK
  BY <1>1, <1>2, <1>5, NothingAsked, ReceiptNumbers, TypeParts DEF ReceiptsInit, QueueTypeOK
<1>7. RecordedIsFinal
  BY <1>3, <1>6 DEF RecordedIsFinal
<1>8. QueueIsRight
  BY <1>2, <1>3 DEF QueueIsRight, ReceiptsInit
<1>9. ASSUME NEW f \in Fillers PROVE RunIsRight(filler[f])
  BY NothingAsked DEF ReceiptsInit, RunIsRight
<1> QED
  BY <1>7, <1>8, <1>9 DEF ReceiptsInv

LEMMA SelectDueKeeps ==
  ASSUME ReceiptsInv, NEW f \in Fillers, SelectDue(f) PROVE ReceiptsInv'
<1> DEFINE new == {h \in submitted : receipts[h].state = "absent"}
<1>1. /\ submitted \subseteq Hashes /\ finalized \subseteq Hashes
      /\ receipts \in [Hashes -> ReceiptRows] /\ filler \in [Fillers -> FillerRuns]
      /\ overdue \in Seq(Hashes) /\ IsInjective(overdue)
      /\ UNCHANGED <<submitted, mined, finalized, receiptFaults>>
  BY TypeParts DEF ReceiptsInv, RecordedIsFinal, SelectDue, QueueTypeOK
<1>2. ASSUME NEW h \in Hashes
      PROVE  /\ receipts'[h] \in ReceiptRows /\ receipts'[h].success = receipts[h].success
             /\ receipts'[h].wait = receipts[h].wait
             /\ receipts[h].state # "absent" => receipts'[h].state = receipts[h].state
             /\ h \in new => receipts'[h].state = "waiting"
             /\ receipts'[h].state = "absent" => receipts[h].state = "absent"
  <2>1. PICK old \in ReceiptRows : old = receipts[h]
    BY <1>1
  <2>2. CASE h \in new
    <3>1. receipts'[h] = [old EXCEPT !.state = "waiting"] /\ old.state = "absent"
      BY <2>1, <2>2 DEF SelectDue
    <3>2. [old EXCEPT !.state = "waiting"] \in ReceiptRows
      BY <2>1 DEF ReceiptRows, RowStates
    <3> QED
      BY <2>1, <3>1, <3>2 DEF ReceiptRows
  <2>3. CASE h \notin new
    BY <1>1, <2>1, <2>3 DEF SelectDue
  <2> QED
    BY <2>2, <2>3
<1>3. receipts' \in [Hashes -> ReceiptRows]
  BY <1>2 DEF SelectDue
<1>4. PICK first \in SetToSeqs(new) : overdue' = first \o overdue
  BY DEF SelectDue
<1>5. IsFiniteSet(new) /\ new \subseteq Hashes
  BY <1>1, ReceiptNumbers, FS_Subset
<1>6. first \in Seq(Hashes) /\ IsInjective(first) /\ ToSet(first) \subseteq new
  BY <1>4, <1>5, SeqOfSet, SeqMonotonic
<1>7. ToSet(first) \cap ToSet(overdue) = {}
  BY <1>6 DEF ReceiptsInv, QueueIsRight
<1>8. /\ overdue' \in Seq(Hashes) /\ IsInjective(overdue')
      /\ ToSet(overdue') \subseteq new \cup ToSet(overdue)
  BY <1>1, <1>4, <1>6, <1>7, ConcatInjective
<1>9. ToSet(overdue) \subseteq Hashes
  BY <1>1, ElementOfSeq, LenProperties DEF ToSet
<1>10. QueueIsRight'
  <2>1. ASSUME NEW h \in Hashes, receipts'[h].state = "absent" PROVE receipts'[h].wait = 0
    BY <1>2, <2>1 DEF ReceiptsInv, QueueIsRight
  <2>2. ASSUME NEW h \in ToSet(overdue')
        PROVE  receipts'[h].state # "absent" /\ receipts'[h].wait = 0
    <3>1. h \in Hashes /\ receipts[h].wait = 0
      BY <1>5, <1>8, <1>9, <2>2 DEF ReceiptsInv, QueueIsRight
    <3> QED
      BY <1>2, <1>8, <2>2, <3>1 DEF ReceiptsInv, QueueIsRight
  <2> QED
    BY <1>1, <2>1, <2>2 DEF ReceiptsInv, QueueIsRight
<1>11. Batch(overdue') \subseteq ToSet(overdue')
  <2> DEFINE n == Min({BatchLimit, Len(overdue')})
  <2>1. Len(overdue') \in Nat /\ BatchLimit \in Nat
    BY <1>8, LenProperties, ReceiptConstants
  <2>2. n \in Nat /\ n <= Len(overdue')
    <3>1. CASE BatchLimit <= Len(overdue')
      <4>1. BatchLimit \in {BatchLimit, Len(overdue')}
            /\ \A y \in {BatchLimit, Len(overdue')} : BatchLimit <= y
        BY <2>1, <3>1
      <4>2. n = BatchLimit
        BY <2>1, <4>1 DEF Min
      <4> QED
        BY <2>1, <3>1, <4>2
    <3>2. CASE ~(BatchLimit <= Len(overdue'))
      <4>1. Len(overdue') \in {BatchLimit, Len(overdue')}
            /\ \A y \in {BatchLimit, Len(overdue')} : Len(overdue') <= y
        BY <2>1, <3>2
      <4>2. n = Len(overdue')
        BY <2>1, <4>1 DEF Min
      <4> QED
        BY <2>1, <4>2
    <3> QED
      BY <3>1, <3>2
  <2> HIDE DEF n
  <2>3. DOMAIN SubSeq(overdue', 1, n) \subseteq DOMAIN overdue'
        /\ \A i \in DOMAIN SubSeq(overdue', 1, n) : SubSeq(overdue', 1, n)[i] = overdue'[i]
    BY <1>8, <2>1, <2>2, LenProperties, SubSeqProperties
  <2>4. ToSet(SubSeq(overdue', 1, n)) \subseteq ToSet(overdue')
    BY <2>3 DEF ToSet
  <2> QED
    BY <2>4 DEF Batch, n
<1> DEFINE run == [NotFilling EXCEPT !.phase = "ask", !.final = finalized,
                                     !.asked = Batch(overdue')]
<1>12. Batch(overdue') \subseteq Hashes
  BY <1>5, <1>8, <1>9, <1>11
<1>13. /\ run \in FillerRuns /\ run.asked = Batch(overdue') /\ run.final = finalized
       /\ \A h \in Hashes : run.answer[h] = "none"
  BY <1>1, <1>12, NothingAsked DEF FillerRuns
<1>14. filler' = [filler EXCEPT ![f] = run]
  BY DEF SelectDue
<1> HIDE DEF run
<1>15. filler' \in [Fillers -> FillerRuns]
  BY <1>1, <1>13, <1>14
<1>16. ReceiptsTypeOK'
  BY <1>1, <1>3, <1>8, <1>15, TypeParts
     DEF ReceiptsInv, RecordedIsFinal, ReceiptsTypeOK, ReceiptRows, FillerRuns, ReplyKinds
<1>17. RecordedIsFinal'
  BY <1>1, <1>2, <1>16 DEF ReceiptsInv, RecordedIsFinal
<1>18. ASSUME NEW g \in Fillers PROVE RunIsRight(filler[g])'
  <2>1. CASE g = f
    <3>1. filler'[g] = run
      BY <1>1, <1>14, <2>1
    <3>2. \A h \in Batch(overdue') : receipts'[h].state # "absent"
      BY <1>10, <1>11 DEF QueueIsRight
    <3> QED
      BY <1>1, <1>13, <3>1, <3>2 DEF RunIsRight
  <2>2. CASE g # f
    <3>1. filler'[g] = filler[g] /\ filler[g].asked \subseteq Hashes
      BY <1>1, <1>14, <2>2 DEF FillerRuns
    <3> QED
      BY <1>1, <1>2, <3>1 DEF ReceiptsInv, RunIsRight
  <2> QED
    BY <2>1, <2>2
<1> QED
  BY <1>10, <1>17, <1>18 DEF ReceiptsInv

LEMMA AskKeeps ==
  ASSUME ReceiptsInv, NEW f \in Fillers, AskReceipts(f) PROVE ReceiptsInv'
<1>1. /\ filler \in [Fillers -> FillerRuns] /\ mined \in [Hashes -> ReplyKinds]
      /\ UNCHANGED <<submitted, mined, finalized, receipts, overdue, receiptFaults>>
  BY TypeParts DEF ReceiptsInv, RecordedIsFinal, AskReceipts
<1>2. PICK old \in FillerRuns : old = filler[f] /\ RunIsRight(old)
  BY <1>1 DEF ReceiptsInv
<1> DEFINE answer == [h \in Hashes |-> IF h \in Answerable(old) THEN mined[h] ELSE "none"]
           run == [old EXCEPT !.phase = "write", !.answer = answer]
<1>3. answer \in [Hashes -> ReplyKinds]
  BY <1>1, ReceiptNumbers
<1>4. \A h \in Hashes : answer[h] # "none" => h \in finalized /\ answer[h] = mined[h]
  BY <1>2 DEF Answerable, RunIsRight
<1>5. filler' = [filler EXCEPT ![f] = run]
  BY <1>1, <1>2 DEF AskReceipts
<1> HIDE DEF answer
<1>6. run \in FillerRuns /\ run.asked = old.asked /\ run.final = old.final /\ run.answer = answer
  BY <1>2, <1>3 DEF FillerRuns
<1> HIDE DEF run
<1>7. filler' \in [Fillers -> FillerRuns]
  BY <1>1, <1>5, <1>6
<1>8. ReceiptsTypeOK'
  BY <1>1, <1>7, TypeParts
     DEF ReceiptsInv, RecordedIsFinal, ReceiptsTypeOK, FillerRuns, ReplyKinds
<1>9. RecordedIsFinal' /\ QueueIsRight'
  BY <1>1, <1>8 DEF ReceiptsInv, RecordedIsFinal, QueueIsRight
<1>10. ASSUME NEW g \in Fillers PROVE RunIsRight(filler[g])'
  <2>1. CASE g = f
    <3>1. filler'[g] = run
      BY <1>1, <1>5, <2>1
    <3> QED
      BY <1>1, <1>2, <1>4, <1>6, <3>1 DEF RunIsRight
  <2>2. CASE g # f
    <3>1. filler'[g] = filler[g]
      BY <1>1, <1>5, <2>2
    <3> QED
      BY <1>1, <3>1 DEF ReceiptsInv, RunIsRight
  <2> QED
    BY <2>1, <2>2
<1> QED
  BY <1>9, <1>10 DEF ReceiptsInv

\* A run that ends relies on nothing, whatever the rows are then.
LEMMA EndedRun ==
  ASSUME ReceiptsInv, NEW f \in Fillers, filler' = [filler EXCEPT ![f] = NotFilling],
         UNCHANGED <<mined, finalized>>,
         \A h \in Hashes : receipts[h].state # "absent" => receipts'[h].state # "absent"
  PROVE  filler' \in [Fillers -> FillerRuns] /\ \A g \in Fillers : RunIsRight(filler[g])'
<1>1. filler \in [Fillers -> FillerRuns]
  BY TypeParts DEF ReceiptsInv, RecordedIsFinal
<1>2. filler' \in [Fillers -> FillerRuns]
  BY <1>1, NothingAsked
<1>3. ASSUME NEW g \in Fillers PROVE RunIsRight(filler[g])'
  <2>1. CASE g = f
    BY <1>1, <2>1, NothingAsked DEF RunIsRight
  <2>2. CASE g # f
    <3>1. filler'[g] = filler[g] /\ filler[g].asked \subseteq Hashes
      BY <1>1, <2>2 DEF FillerRuns
    <3> QED
      BY <3>1 DEF ReceiptsInv, RunIsRight
  <2> QED
    BY <2>1, <2>2
<1> QED
  BY <1>2, <1>3

LEMMA WriteKeeps ==
  ASSUME ReceiptsInv, NEW f \in Fillers, NEW complete \in SUBSET filler[f].asked,
         WriteReceipts(f, complete)
  PROVE  ReceiptsInv'
<1>1. /\ receipts \in [Hashes -> ReceiptRows] /\ filler \in [Fillers -> FillerRuns]
      /\ overdue \in Seq(Hashes) /\ mined \in [Hashes -> ReplyKinds]
      /\ UNCHANGED <<submitted, mined, finalized, receiptFaults>>
  BY TypeParts DEF ReceiptsInv, RecordedIsFinal, WriteReceipts, QueueTypeOK
<1>2. PICK run \in FillerRuns : run = filler[f] /\ RunIsRight(run)
  BY <1>1 DEF ReceiptsInv
<1>3. ASSUME NEW h \in Hashes, h \notin run.asked PROVE receipts'[h] = receipts[h]
  BY <1>2, <1>3 DEF WriteReceipts
<1>4. ASSUME NEW h \in Hashes, h \in run.asked
      PROVE  /\ receipts'[h] \in ReceiptRows /\ receipts'[h].state # "absent"
             /\ \/ receipts'[h].success = receipts[h].success
                \/ h \in finalized /\ receipts'[h].success = mined[h]
  <2>1. PICK old \in ReceiptRows : old = receipts[h] /\ old.state # "absent"
    BY <1>1, <1>2, <1>4 DEF RunIsRight
  <2>2. CASE run.answer[h] = "none"
    <3>1. receipts'[h] = [old EXCEPT !.wait = Short]
      BY <1>2, <1>4, <2>1, <2>2 DEF WriteReceipts, Unanswered
    <3>2. [old EXCEPT !.wait = Short] \in ReceiptRows
      BY <2>1, ReceiptNumbers DEF ReceiptRows
    <3> QED
      BY <2>1, <3>1, <3>2 DEF ReceiptRows
  <2>3. CASE run.answer[h] # "none"
    <3> DEFINE full == IF h \in complete THEN "full" ELSE "partial"
    <3>1. receipts'[h] = [state |-> full, success |-> run.answer[h], wait |-> Long]
      BY <1>2, <1>4, <2>3 DEF WriteReceipts
    <3>2. full \in RowStates /\ full # "absent"
      BY DEF RowStates
    <3>3. h \in finalized /\ run.answer[h] = mined[h] /\ mined[h] \in ReplyKinds
      BY <1>1, <1>2, <2>3 DEF RunIsRight
    <3> HIDE DEF full
    <3> QED
      BY <3>1, <3>2, <3>3, ReceiptNumbers DEF ReceiptRows
  <2> QED
    BY <2>2, <2>3
<1>5. receipts' \in [Hashes -> ReceiptRows]
  <2>1. \A h \in Hashes : receipts'[h] \in ReceiptRows
    BY <1>1, <1>3, <1>4
  <2> QED
    BY <1>2, <2>1 DEF WriteReceipts
<1>6. /\ ToSet(overdue) \subseteq Hashes /\ IsFiniteSet(ToSet(overdue) \ run.asked)
      /\ overdue' \in SetToSeqs(ToSet(overdue) \ run.asked)
  <2>1. ToSet(overdue) \subseteq Hashes
    BY <1>1, ElementOfSeq, LenProperties DEF ToSet
  <2>2. overdue' \in SetToSeqs(ToSet(overdue) \ run.asked)
    BY <1>2 DEF WriteReceipts, StillOverdue
  <2> QED
    BY <2>1, <2>2, ReceiptNumbers, FS_Subset
<1>7. /\ overdue' \in Seq(Hashes) /\ IsInjective(overdue')
      /\ ToSet(overdue') \subseteq ToSet(overdue) \ run.asked
  BY <1>6, SeqOfSet, SeqMonotonic
<1>8. QueueIsRight'
  <2>1. ASSUME NEW h \in Hashes, receipts'[h].state = "absent" PROVE receipts'[h].wait = 0
    BY <1>3, <1>4, <2>1 DEF ReceiptsInv, QueueIsRight
  <2>2. ASSUME NEW h \in ToSet(overdue')
        PROVE  receipts'[h].state # "absent" /\ receipts'[h].wait = 0
    BY <1>3, <1>6, <1>7, <2>2 DEF ReceiptsInv, QueueIsRight
  <2> QED
    BY <1>1, <2>1, <2>2 DEF ReceiptsInv, QueueIsRight
<1>9. \A h \in Hashes : receipts[h].state # "absent" => receipts'[h].state # "absent"
  BY <1>3, <1>4
<1>10. filler' \in [Fillers -> FillerRuns] /\ \A g \in Fillers : RunIsRight(filler[g])'
  BY <1>1, <1>9, EndedRun DEF WriteReceipts
<1>11. ReceiptsTypeOK'
  BY <1>1, <1>5, <1>7, <1>10, TypeParts
     DEF ReceiptsInv, RecordedIsFinal, ReceiptsTypeOK, ReceiptRows, FillerRuns, ReplyKinds
<1>12. RecordedIsFinal'
  <2>1. ASSUME NEW h \in Hashes, receipts'[h].success # "none"
        PROVE  h \in finalized' /\ receipts'[h].success = mined'[h]
    BY <1>1, <1>3, <1>4, <2>1 DEF ReceiptsInv, RecordedIsFinal
  <2> QED
    BY <1>11, <2>1 DEF RecordedIsFinal
<1> QED
  BY <1>8, <1>10, <1>12 DEF ReceiptsInv

LEMMA FailKeeps ==
  ASSUME ReceiptsInv, NEW f \in Fillers, FillFails(f) PROVE ReceiptsInv'
<1>1. UNCHANGED <<submitted, mined, finalized, receipts, overdue>>
  BY DEF FillFails
<1>2. filler' \in [Fillers -> FillerRuns] /\ \A g \in Fillers : RunIsRight(filler[g])'
  BY <1>1, EndedRun DEF FillFails
<1>3. receiptFaults' \in 0..MaxReceiptFaults
  BY ReceiptNumbers, TypeParts DEF FillFails, ReceiptsInv, RecordedIsFinal
<1>4. ReceiptsTypeOK'
  BY <1>1, <1>2, <1>3, TypeParts
     DEF ReceiptsInv, RecordedIsFinal, ReceiptsTypeOK, FillerRuns, ReplyKinds
<1> QED
  BY <1>1, <1>2, <1>4 DEF ReceiptsInv, RecordedIsFinal, QueueIsRight

\* The chain and the passing of time.
LEMMA ChainKeeps ==
  ASSUME ReceiptsInv, NEW h \in Hashes,
         \/ SubmitTx(h) \/ FinalizeTx(h) \/ Reorganise(h)
         \/ \E outcome \in Outcomes : Mine(h, outcome)
  PROVE  ReceiptsInv'
<1>1. /\ submitted \subseteq Hashes /\ finalized \subseteq Hashes
      /\ mined \in [Hashes -> ReplyKinds] /\ filler \in [Fillers -> FillerRuns]
  BY TypeParts DEF ReceiptsInv, RecordedIsFinal
<1>2. UNCHANGED <<receipts, overdue, filler>>
  BY DEF SubmitTx, FinalizeTx, Reorganise, Mine
<1>3. /\ submitted' \subseteq Hashes /\ finalized' \subseteq Hashes
      /\ receiptFaults' \in 0..MaxReceiptFaults
  BY <1>1, ReceiptNumbers, TypeParts
     DEF SubmitTx, FinalizeTx, Reorganise, Mine, ReceiptsInv, RecordedIsFinal
<1>4. finalized \subseteq finalized' /\ mined' \in [Hashes -> ReplyKinds]
      /\ (\A x \in finalized : mined'[x] = mined[x])
      /\ (\A x \in finalized' : mined'[x] # "none")
  <2>1. \A x \in finalized : x \in Hashes /\ mined[x] # "none"
    BY <1>1 DEF ReceiptsInv, QueueIsRight
  <2>2. CASE SubmitTx(h)
    BY <1>1, <2>1, <2>2 DEF SubmitTx
  <2>3. CASE FinalizeTx(h)
    BY <1>1, <2>1, <2>3 DEF FinalizeTx
  <2>4. CASE Reorganise(h)
    BY <1>1, <2>1, <2>4, ReceiptNumbers DEF Reorganise
  <2>5. CASE \E outcome \in Outcomes : Mine(h, outcome)
    <3>1. PICK outcome \in Outcomes : Mine(h, outcome)
      BY <2>5
    <3> QED
      BY <1>1, <2>1, <3>1, ReceiptNumbers DEF Mine
  <2> QED
    BY <2>2, <2>3, <2>4, <2>5
<1>5. ReceiptsTypeOK'
  BY <1>1, <1>2, <1>3, <1>4, TypeParts
     DEF ReceiptsInv, RecordedIsFinal, ReceiptsTypeOK, ReplyKinds
<1>6. RecordedIsFinal'
  BY <1>2, <1>4, <1>5 DEF ReceiptsInv, RecordedIsFinal
<1>7. QueueIsRight'
  BY <1>2, <1>4 DEF ReceiptsInv, QueueIsRight
<1>8. ASSUME NEW g \in Fillers PROVE RunIsRight(filler[g])'
  <2>1. PICK run \in FillerRuns : run = filler[g] /\ RunIsRight(run)
    BY <1>1 DEF ReceiptsInv
  <2>2. filler'[g] = run
    BY <1>2, <2>1
  <2> QED
    BY <1>2, <1>4, <2>1, <2>2 DEF RunIsRight
<1> QED
  BY <1>6, <1>7, <1>8 DEF ReceiptsInv

LEMMA ReceiptTickKeeps ==
  ASSUME ReceiptsInv, ReceiptTick PROVE ReceiptsInv'
<1> DEFINE waits == {h \in Hashes : receipts[h].wait > 0}
           missing == {h \in waits : receipts[h].wait = 1 /\ receipts[h].state # "full"}
<1>1. /\ receipts \in [Hashes -> ReceiptRows] /\ filler \in [Fillers -> FillerRuns]
      /\ overdue \in Seq(Hashes) /\ IsInjective(overdue)
      /\ UNCHANGED <<submitted, mined, finalized, filler, receiptFaults>>
  BY TypeParts DEF ReceiptsInv, RecordedIsFinal, ReceiptTick, QueueTypeOK
<1>2. ASSUME NEW h \in Hashes
      PROVE  /\ receipts'[h] \in ReceiptRows /\ receipts'[h].success = receipts[h].success
             /\ receipts'[h].state = receipts[h].state
             /\ receipts[h].wait = 0 => receipts'[h].wait = 0
             /\ h \in missing => receipts'[h].wait = 0
  <2>1. PICK old \in ReceiptRows : old = receipts[h]
    BY <1>1
  <2>2. old.wait \in 0..Long /\ Long \in Nat
    BY <2>1, ReceiptNumbers DEF ReceiptRows
  <2>3. CASE h \in waits
    <3>1. old.wait > 0 /\ receipts'[h] = [old EXCEPT !.wait = old.wait - 1]
      BY <2>1, <2>3 DEF ReceiptTick
    <3>2. old.wait - 1 \in 0..Long
      BY <2>2, <3>1
    <3>3. /\ receipts'[h] \in ReceiptRows /\ receipts'[h].success = old.success
          /\ receipts'[h].state = old.state /\ receipts'[h].wait = old.wait - 1
      BY <2>1, <3>1, <3>2 DEF ReceiptRows
    <3> QED
      BY <2>1, <2>2, <3>1, <3>3
  <2>4. CASE h \notin waits
    <3>1. receipts'[h] = old /\ h \notin missing
      BY <2>1, <2>4 DEF ReceiptTick
    <3> QED
      BY <2>1, <3>1
  <2> QED
    BY <2>3, <2>4
<1>3. receipts' \in [Hashes -> ReceiptRows]
  BY <1>2 DEF ReceiptTick
<1>4. PICK last \in SetToSeqs(missing) : overdue' = overdue \o last
  BY DEF ReceiptTick
<1>5. IsFiniteSet(missing) /\ missing \subseteq Hashes
  BY ReceiptNumbers, FS_Subset
<1>6. last \in Seq(Hashes) /\ IsInjective(last) /\ ToSet(last) \subseteq missing
  BY <1>4, <1>5, SeqOfSet, SeqMonotonic
<1>7. ASSUME NEW h \in missing
      PROVE  h \in Hashes /\ receipts[h].wait = 1 /\ receipts[h].state # "absent"
  <2>1. receipts[h].wait = 1 /\ h \in Hashes
    BY <1>7
  <2> QED
    BY <2>1 DEF ReceiptsInv, QueueIsRight
<1>8. ToSet(overdue) \cap ToSet(last) = {}
  BY <1>6, <1>7 DEF ReceiptsInv, QueueIsRight
<1>9. /\ overdue' \in Seq(Hashes) /\ IsInjective(overdue')
      /\ ToSet(overdue') \subseteq ToSet(overdue) \cup missing
  BY <1>1, <1>4, <1>6, <1>8, ConcatInjective
<1>10. ToSet(overdue) \subseteq Hashes
  BY <1>1, ElementOfSeq, LenProperties DEF ToSet
<1> HIDE DEF missing
<1>11. QueueIsRight'
  <2>1. ASSUME NEW h \in Hashes, receipts'[h].state = "absent" PROVE receipts'[h].wait = 0
    BY <1>2, <2>1 DEF ReceiptsInv, QueueIsRight
  <2>2. ASSUME NEW h \in ToSet(overdue')
        PROVE  receipts'[h].state # "absent" /\ receipts'[h].wait = 0
    BY <1>2, <1>7, <1>9, <1>10, <2>2 DEF ReceiptsInv, QueueIsRight
  <2> QED
    BY <1>1, <2>1, <2>2 DEF ReceiptsInv, QueueIsRight
<1>12. ReceiptsTypeOK'
  BY <1>1, <1>3, <1>9, TypeParts
     DEF ReceiptsInv, RecordedIsFinal, ReceiptsTypeOK, ReceiptRows, FillerRuns, ReplyKinds
<1>13. RecordedIsFinal'
  BY <1>1, <1>2, <1>12 DEF ReceiptsInv, RecordedIsFinal
<1>14. ASSUME NEW g \in Fillers PROVE RunIsRight(filler[g])'
  <2>1. PICK run \in FillerRuns : run = filler[g] /\ RunIsRight(run)
    BY <1>1 DEF ReceiptsInv
  <2>2. filler'[g] = run /\ run.asked \subseteq Hashes
    BY <1>1, <2>1 DEF FillerRuns
  <2> QED
    BY <1>1, <1>2, <2>1, <2>2 DEF RunIsRight
<1> QED
  BY <1>11, <1>13, <1>14 DEF ReceiptsInv

LEMMA ReceiptsStep ==
  ASSUME ReceiptsInv, [ReceiptsNext]_receiptVars PROVE ReceiptsInv'
<1>1. CASE \E f \in Fillers : FillStep(f)
  BY <1>1, SelectDueKeeps, AskKeeps, WriteKeeps DEF FillStep
<1>2. CASE \E f \in Fillers : FillFails(f)
  BY <1>2, FailKeeps
<1>3. CASE \E h \in Hashes : \/ SubmitTx(h) \/ FinalizeTx(h) \/ Reorganise(h)
                             \/ \E outcome \in Outcomes : Mine(h, outcome)
  BY <1>3, ChainKeeps
<1>4. CASE ReceiptTick
  BY <1>4, ReceiptTickKeeps
<1>5. CASE UNCHANGED receiptVars
  <2>1. UNCHANGED <<submitted, mined, finalized, receipts, overdue, filler, receiptFaults>>
    BY <1>5 DEF receiptVars
  <2>2. RecordedIsFinal' /\ QueueIsRight'
    BY <2>1 DEF ReceiptsInv, RecordedIsFinal, ReceiptsTypeOK, QueueIsRight
  <2>3. \A f \in Fillers : RunIsRight(filler[f])'
    BY <2>1 DEF ReceiptsInv, RunIsRight
  <2> QED
    BY <2>2, <2>3 DEF ReceiptsInv
<1> QED
  BY <1>1, <1>2, <1>3, <1>4, <1>5 DEF ReceiptsNext

(* The invariant of the receipts: what a run asked for, knew to be final and *)
(* was answered stands until it writes, and the queue has each row once.     *)
THEOREM ReceiptsInvariance == ReceiptsSpec => []ReceiptsInv
<1>1. ReceiptsInit => ReceiptsInv
  BY ReceiptsInitially
<1>2. ReceiptsInv /\ [ReceiptsNext]_receiptVars => ReceiptsInv'
  BY ReceiptsStep
<1> QED
  BY <1>1, <1>2, PTL DEF ReceiptsSpec

(* The outcome recorded for a transaction is what the final chain says,      *)
(* whatever is reorganised between the calls of a run and however many runs  *)
(* write the same rows.                                                      *)
THEOREM ReceiptsAreFinal == ReceiptsSpec => []RecordedIsFinal
<1>1. ReceiptsInv => RecordedIsFinal
  BY DEF ReceiptsInv
<1> QED
  BY <1>1, ReceiptsInvariance, PTL

------------------------------------------------------------------------------
(* The wallets of Emails. The wallet shown to the owner of an Email is the    *)
(* wallet of that Email for good.                                             *)

(* An answer that waits to be recorded was generated for its Email. *)
AnswersAreTheirs ==
    \A r \in Requests :
        request[r].phase = "ready" => request[r].address \in generated[request[r].email]

WalletInv == WalletTypeOK /\ ShownIsKept /\ AddressIsItsOwn /\ AnswersAreTheirs

WalletRows ==
    [status : {"absent", "provisioning", "ready", "failed"},
     address : Addresses \cup {NoAddress}, lease : Leases, age : 0..(WalletLease + 1)]
RequestsOf ==
    [phase : {"idle", "begin", "ask", "ready", "failed", "reload"},
     email : Emails, address : Addresses \cup {NoAddress}]

LEMMA NobodysEmail == AnyEmail \in Emails
  BY WalletConstants DEF AnyEmail, WalletConstants

LEMMA NobodyAsks == NoRequest \in RequestsOf
  BY NobodysEmail DEF NoRequest, RequestsOf

(* The parts of the types that a step disturbs, one at a time. *)
LEMMA PhaseMoves ==
  ASSUME request \in [Requests -> RequestsOf], NEW r \in Requests,
         NEW p \in {"idle", "begin", "ask", "ready", "failed", "reload"},
         request' = [request EXCEPT ![r].phase = p]
  PROVE  request' \in [Requests -> RequestsOf]
  <1> DEFINE asks == [request[r] EXCEPT !.phase = p]
  <1>1. asks \in RequestsOf
    BY DEF RequestsOf
  <1>2. request' = [request EXCEPT ![r] = asks]
    OBVIOUS
  <1> HIDE DEF asks
  <1> QED
    BY <1>1, <1>2

LEMMA FailedRow ==
  ASSUME NEW old \in WalletRows
  PROVE  LET entry == [old EXCEPT !.status = "failed", !.lease = "none", !.age = 0]
         IN  entry \in WalletRows /\ entry.status = "failed" /\ entry.address = old.address
  <1> DEFINE ended == [old EXCEPT !.status = "failed"]
             freed == [ended EXCEPT !.lease = "none"]
             entry == [freed EXCEPT !.age = 0]
  <1>1. ended \in WalletRows /\ ended.status = "failed" /\ ended.address = old.address
    BY DEF WalletRows
  <1> HIDE DEF ended
  <1>2. freed \in WalletRows /\ freed.status = "failed" /\ freed.address = old.address
    BY <1>1 DEF WalletRows, Leases
  <1> HIDE DEF freed
  <1>3. entry \in WalletRows /\ entry.status = "failed" /\ entry.address = old.address
    BY <1>2, WalletConstants DEF WalletRows, WalletConstants
  <1> QED
    BY <1>3 DEF freed, ended

LEMMA RowMoves ==
  ASSUME WalletTypeOK, NEW e \in Emails, NEW entry \in WalletRows,
         entry.status = "ready" <=> entry.address # NoAddress,
         wallet' = [wallet EXCEPT ![e] = entry]
  PROVE  /\ wallet' \in [Emails -> WalletRows]
         /\ \A d \in Emails : wallet'[d].status = "ready" <=> wallet'[d].address # NoAddress
  BY DEF WalletTypeOK, WalletRows

LEMMA TypesOf ==
  WalletTypeOK <=>
    /\ wallet \in [Emails -> WalletRows]
    /\ \A e \in Emails : wallet[e].status = "ready" <=> wallet[e].address # NoAddress
    /\ request \in [Requests -> RequestsOf]
    /\ generated \in [Emails -> SUBSET Addresses]
    /\ shown \in [Emails -> SUBSET Addresses]
    /\ walletFaults \in 0..MaxWalletFaults
  BY DEF WalletTypeOK, WalletRows, RequestsOf

LEMMA TypesOfNext ==
  ASSUME wallet' \in [Emails -> WalletRows],
         \A e \in Emails : wallet'[e].status = "ready" <=> wallet'[e].address # NoAddress,
         request' \in [Requests -> RequestsOf],
         generated' \in [Emails -> SUBSET Addresses],
         shown' \in [Emails -> SUBSET Addresses],
         walletFaults' \in 0..MaxWalletFaults
  PROVE  WalletTypeOK'
  BY DEF WalletTypeOK, WalletRows, RequestsOf

LEMMA WalletInitInv == WalletInit => WalletInv
  <1> SUFFICES ASSUME WalletInit PROVE WalletInv
    OBVIOUS
  <1>1. WalletTypeOK
    BY NobodyAsks, WalletConstants
    DEF WalletInit, WalletTypeOK, WalletConstants, Leases, RequestsOf
  <1>2. ShownIsKept /\ AddressIsItsOwn
    BY DEF WalletInit, ShownIsKept, AddressIsItsOwn
  <1>3. AnswersAreTheirs
    BY DEF WalletInit, AnswersAreTheirs, NoRequest
  <1> QED
    BY <1>1, <1>2, <1>3 DEF WalletInv

(* A row that is shown has an address, so no lease is ever taken on it. *)
LEMMA FreeIsNotShown ==
  ASSUME WalletInv, NEW e \in Emails, wallet[e].address = NoAddress
  PROVE  shown[e] = {}
  BY DEF WalletInv, WalletTypeOK, ShownIsKept

(* Steps that leave the rows' status and address alone and show nothing that *)
(* is not in them.                                                          *)
LEMMA RowsKeep ==
  ASSUME WalletInv, WalletTypeOK',
         \A e \in Emails : /\ wallet'[e].status = wallet[e].status
                           /\ wallet'[e].address = wallet[e].address
                           /\ generated[e] \subseteq generated'[e]
                           /\ shown'[e] \subseteq shown[e] \cup ShownOf(e),
         AnswersAreTheirs'
  PROVE  WalletInv'
  <1>1. ShownIsKept'
    <2> SUFFICES ASSUME NEW e \in Emails, NEW a \in shown'[e]
                 PROVE  wallet'[e].status = "ready" /\ wallet'[e].address = a
      BY DEF ShownIsKept
    <2>1. CASE a \in shown[e]
      BY <2>1 DEF WalletInv, ShownIsKept
    <2>2. CASE a \in ShownOf(e)
      BY <2>2 DEF WalletInv, WalletTypeOK, ShownOf
    <2> QED
      BY <2>1, <2>2
  <1>2. AddressIsItsOwn'
    BY DEF WalletInv, AddressIsItsOwn
  <1> QED
    BY <1>1, <1>2 DEF WalletInv

LEMMA OrphanedRows ==
  ASSUME WalletTypeOK, NEW r \in Requests
  PROVE  /\ Orphaned(r) \in [Emails -> WalletRows]
         /\ \A e \in Emails : /\ Orphaned(r)[e].status = wallet[e].status
                              /\ Orphaned(r)[e].address = wallet[e].address
  BY DEF WalletTypeOK, Orphaned, WalletRows, Leases

LEMMA ReadWalletInv ==
  ASSUME WalletInv, NEW r \in Requests, NEW e \in Emails, ReadWallet(r, e)
  PROVE  WalletInv'
  <1>1. WalletTypeOK'
    <2> DEFINE asks == [phase |-> "begin", email |-> e, address |-> NoAddress]
    <2>1. asks \in RequestsOf
      BY DEF RequestsOf
    <2>2. request' = request \/ request' = [request EXCEPT ![r] = asks]
      BY DEF ReadWallet
    <2> HIDE DEF asks
    <2>3. request' \in [Requests -> RequestsOf]
      BY <2>1, <2>2, TypesOf DEF WalletInv
    <2>4. shown' \in [Emails -> SUBSET Addresses]
      BY DEF WalletInv, WalletTypeOK, ReadWallet, ShownOf
    <2> QED
      BY <2>3, <2>4, TypesOf, TypesOfNext DEF WalletInv, ReadWallet
  <1>2. AnswersAreTheirs'
    BY DEF WalletInv, WalletTypeOK, AnswersAreTheirs, ReadWallet
  <1>3. \A d \in Emails : shown'[d] \subseteq shown[d] \cup ShownOf(d)
    BY DEF WalletInv, WalletTypeOK, ReadWallet
  <1> QED
    BY <1>1, <1>2, <1>3, RowsKeep DEF ReadWallet

LEMMA BeginInv ==
  ASSUME WalletInv, NEW r \in Requests, BeginProvisioning(r)
  PROVE  WalletInv'
  <1> DEFINE e == request[r].email
             entry == [status |-> "provisioning", address |-> NoAddress, lease |-> r, age |-> 0]
  <1>0. e \in Emails /\ entry \in WalletRows
    BY WalletConstants DEF WalletInv, WalletTypeOK, WalletRows, Leases, WalletConstants
  <1>1. request' \in [Requests -> RequestsOf] /\ AnswersAreTheirs'
    <2>1. PICK p \in {"ask", "reload"} : request' = [request EXCEPT ![r].phase = p]
      BY DEF BeginProvisioning
    <2>2. \A q \in Requests : /\ request'[q].email = request[q].email
                              /\ request'[q].address = request[q].address
                              /\ request'[q].phase = "ready" => request[q].phase = "ready"
      BY <2>1, TypesOf DEF WalletInv, RequestsOf
    <2> QED
      BY <2>1, <2>2, PhaseMoves, TypesOf DEF WalletInv, AnswersAreTheirs, BeginProvisioning
  <1>2. CASE Free(wallet[e])
    <2>1. wallet' = [wallet EXCEPT ![e] = entry] /\ UNCHANGED <<generated, shown, walletFaults>>
      BY <1>2 DEF BeginProvisioning
    <2>2. shown[e] = {} /\ wallet[e].address = NoAddress
      BY <1>0, <1>2, FreeIsNotShown DEF Free
    <2>3. WalletTypeOK'
      BY <1>0, <1>1, <2>1, RowMoves, TypesOf, TypesOfNext DEF WalletInv
    <2>4. ShownIsKept'
      BY <1>0, <2>1, <2>2 DEF WalletInv, WalletTypeOK, ShownIsKept
    <2>5. AddressIsItsOwn'
      BY <1>0, <2>1 DEF WalletInv, WalletTypeOK, AddressIsItsOwn
    <2> QED
      BY <1>1, <2>3, <2>4, <2>5 DEF WalletInv
  <1>3. CASE ~Free(wallet[e])
    <2>1. WalletTypeOK' /\ UNCHANGED <<wallet, generated, shown>>
      BY <1>1, <1>3, TypesOf, TypesOfNext DEF WalletInv, BeginProvisioning
    <2> QED
      BY <1>1, <2>1, RowsKeep
  <1> QED
    BY <1>2, <1>3

LEMMA AskMagicInv ==
  ASSUME WalletInv, NEW r \in Requests, NEW a \in Addresses, AskMagic(r, a)
  PROVE  WalletInv'
  <1>0. /\ generated' = [generated EXCEPT ![request[r].email] = @ \cup {a}]
        /\ request' = [request EXCEPT ![r].phase = "ready", ![r].address = a]
        /\ UNCHANGED <<wallet, shown, walletFaults>>
    BY DEF AskMagic
  <1> DEFINE asks == [request[r] EXCEPT !.phase = "ready", !.address = a]
  <1>a. asks \in RequestsOf /\ asks.email = request[r].email /\ asks.address = a
    BY TypesOf DEF WalletInv, RequestsOf
  <1>b. request' = [request EXCEPT ![r] = asks]
    BY <1>0
  <1> HIDE DEF asks
  <1>1. WalletTypeOK'
    <2>1. request' \in [Requests -> RequestsOf] /\ generated' \in [Emails -> SUBSET Addresses]
      BY ZenonT(40), <1>0, <1>a, <1>b, TypesOf DEF WalletInv
    <2> QED
      BY <1>0, <2>1, TypesOf, TypesOfNext DEF WalletInv
  <1>2. AnswersAreTheirs'
    <2>1. request[r].email \in Emails
      BY DEF WalletInv, WalletTypeOK
    <2> SUFFICES ASSUME NEW q \in Requests, request'[q].phase = "ready"
                 PROVE  request'[q].address \in generated'[request'[q].email]
      BY DEF AnswersAreTheirs
    <2>2. CASE q = r
      BY <1>0, <1>a, <1>b, <2>1, <2>2, TypesOf DEF WalletInv
    <2>3. CASE q # r
      BY <1>0, <1>b, <2>1, <2>3, TypesOf DEF WalletInv, AnswersAreTheirs, RequestsOf
    <2> QED
      BY <2>2, <2>3
  <1>3. \A d \in Emails : generated[d] \subseteq generated'[d]
    BY <1>0 DEF WalletInv, WalletTypeOK
  <1> QED
    BY <1>0, <1>1, <1>2, <1>3, RowsKeep

LEMMA RecordReadyInv ==
  ASSUME WalletInv, NEW r \in Requests, RecordReady(r)
  PROVE  WalletInv'
  <1> DEFINE e == request[r].email
             a == request[r].address
             entry == [status |-> "ready", address |-> a, lease |-> "none", age |-> 0]
  <1>0. e \in Emails /\ a \in generated[e] /\ a \in Addresses /\ a # NoAddress /\ entry \in WalletRows
    BY WalletConstants
    DEF WalletInv, WalletTypeOK, AnswersAreTheirs, RecordReady, WalletRows, Leases, WalletConstants
  <1>1. request' \in [Requests -> RequestsOf] /\ AnswersAreTheirs'
    <2>1. PICK p \in {"reload", "failed"} : request' = [request EXCEPT ![r].phase = p]
      BY DEF RecordReady
    <2>2. \A q \in Requests : /\ request'[q].email = request[q].email
                              /\ request'[q].address = request[q].address
                              /\ request'[q].phase = "ready" => request[q].phase = "ready"
      BY <2>1, TypesOf DEF WalletInv, RequestsOf
    <2> QED
      BY <2>1, <2>2, PhaseMoves, TypesOf DEF WalletInv, AnswersAreTheirs, RecordReady
  <1>2. CASE Holds(r) /\ ~Taken(e, a)
    <2>1. wallet' = [wallet EXCEPT ![e] = entry] /\ UNCHANGED <<generated, shown, walletFaults>>
      BY <1>2 DEF RecordReady
    <2>2. wallet[e].address = NoAddress
      BY <1>0, <1>2 DEF WalletInv, WalletTypeOK, Holds
    <2>3. shown[e] = {}
      BY <1>0, <2>2, FreeIsNotShown
    <2>4. WalletTypeOK'
      BY <1>0, <1>1, <2>1, RowMoves, TypesOf, TypesOfNext DEF WalletInv
    <2>5. ShownIsKept'
      BY <1>0, <2>1, <2>3 DEF WalletInv, WalletTypeOK, ShownIsKept
    <2>6. AddressIsItsOwn'
      <3>1. \A d \in Emails \ {e} : wallet'[d] = wallet[d] /\ wallet[d].address # a
        BY <1>0, <1>2, <2>1 DEF WalletInv, WalletTypeOK, Taken
      <3>2. wallet'[e].address = a
        BY <1>0, <2>1 DEF WalletInv, WalletTypeOK
      <3> QED
        BY <1>0, <2>1, <3>1, <3>2 DEF WalletInv, AddressIsItsOwn
    <2> QED
      BY <1>1, <2>4, <2>5, <2>6 DEF WalletInv
  <1>3. CASE ~(Holds(r) /\ ~Taken(e, a))
    <2>1. WalletTypeOK' /\ UNCHANGED <<wallet, generated, shown>>
      BY <1>1, <1>3, TypesOf, TypesOfNext DEF WalletInv, RecordReady
    <2> QED
      BY <1>1, <2>1, RowsKeep
  <1> QED
    BY <1>2, <1>3

LEMMA RecordFailedInv ==
  ASSUME WalletInv, NEW r \in Requests, RecordFailed(r)
  PROVE  WalletInv'
  <1> DEFINE e == request[r].email
             entry == [wallet[e] EXCEPT !.status = "failed", !.lease = "none", !.age = 0]
  <1>0. e \in Emails
    BY DEF WalletInv, WalletTypeOK
  <1>1. request' \in [Requests -> RequestsOf] /\ AnswersAreTheirs'
    <2>1. request' = [request EXCEPT ![r].phase = "reload"]
      BY DEF RecordFailed
    <2>2. \A q \in Requests : /\ request'[q].email = request[q].email
                              /\ request'[q].address = request[q].address
                              /\ request'[q].phase = "ready" => request[q].phase = "ready"
      BY <2>1, TypesOf DEF WalletInv, RequestsOf
    <2> QED
      BY <2>1, <2>2, PhaseMoves, TypesOf DEF WalletInv, AnswersAreTheirs, RecordFailed
  <1>2. CASE Holds(r)
    <2>1. wallet' = [wallet EXCEPT ![e] = entry] /\ UNCHANGED <<generated, shown, walletFaults>>
      BY <1>0, <1>2 DEF RecordFailed, WalletInv, WalletTypeOK
    <2>0. wallet[e] \in WalletRows /\ wallet[e].address = NoAddress
      BY <1>0, <1>2, TypesOf DEF WalletInv, Holds
    <2>2. /\ wallet[e].address = NoAddress /\ entry \in WalletRows
          /\ entry.address = NoAddress /\ entry.status = "failed"
      BY <2>0, FailedRow
    <2> HIDE DEF entry
    <2>3. shown[e] = {}
      BY <1>0, <2>2, FreeIsNotShown
    <2>4. WalletTypeOK'
      BY <1>0, <1>1, <2>1, <2>2, RowMoves, TypesOf, TypesOfNext DEF WalletInv
    <2>5. ShownIsKept'
      BY <1>0, <2>1, <2>3 DEF WalletInv, WalletTypeOK, ShownIsKept
    <2>6. AddressIsItsOwn'
      BY <1>0, <2>1, <2>2 DEF WalletInv, WalletTypeOK, AddressIsItsOwn
    <2> QED
      BY <1>1, <2>4, <2>5, <2>6 DEF WalletInv
  <1>3. CASE ~Holds(r)
    <2>1. WalletTypeOK' /\ UNCHANGED <<wallet, generated, shown>>
      BY <1>1, <1>3, TypesOf, TypesOfNext DEF WalletInv, RecordFailed
    <2> QED
      BY <1>1, <2>1, RowsKeep
  <1> QED
    BY <1>2, <1>3

(* The end of a request, answered or not. *)
LEMMA RequestEndsInv ==
  ASSUME WalletInv, NEW r \in Requests, NEW faults \in 0..MaxWalletFaults,
         wallet' = Orphaned(r), request' = [request EXCEPT ![r] = NoRequest],
         generated' = generated, walletFaults' = faults,
         shown' \in [Emails -> SUBSET Addresses],
         \A e \in Emails : shown'[e] \subseteq shown[e] \cup ShownOf(e)
  PROVE  WalletInv'
  <1>1. WalletTypeOK
    BY DEF WalletInv
  <1>2. WalletTypeOK'
    BY <1>1, OrphanedRows, NobodyAsks DEF WalletTypeOK, WalletRows, RequestsOf
  <1>3. AnswersAreTheirs'
    BY <1>1 DEF WalletInv, WalletTypeOK, AnswersAreTheirs, NoRequest
  <1> QED
    BY <1>1, <1>2, <1>3, OrphanedRows, RowsKeep

LEMMA ReloadInv ==
  ASSUME WalletInv, NEW r \in Requests, ReloadWallet(r)
  PROVE  WalletInv'
  <1>1. walletFaults \in 0..MaxWalletFaults /\ walletFaults' = walletFaults
    BY DEF WalletInv, WalletTypeOK, ReloadWallet
  <1>2. /\ shown' \in [Emails -> SUBSET Addresses]
        /\ \A e \in Emails : shown'[e] \subseteq shown[e] \cup ShownOf(e)
    BY DEF WalletInv, WalletTypeOK, ReloadWallet, ShownOf
  <1> QED
    BY <1>1, <1>2, RequestEndsInv DEF ReloadWallet

LEMMA CrashInv ==
  ASSUME WalletInv, NEW r \in Requests, WalletCrash(r)
  PROVE  WalletInv'
  <1>1. walletFaults' \in 0..MaxWalletFaults
    BY WalletConstants DEF WalletInv, WalletTypeOK, WalletCrash, WalletFault, WalletConstants
  <1> QED
    BY <1>1, RequestEndsInv DEF WalletInv, WalletTypeOK, WalletCrash

LEMMA MagicFailsInv ==
  ASSUME WalletInv, NEW r \in Requests, MagicFails(r)
  PROVE  WalletInv'
  <1>1. PICK made \in SUBSET Addresses :
             generated' = [generated EXCEPT ![request[r].email] = @ \cup made]
    BY DEF MagicFails
  <1>2. walletFaults' \in 0..MaxWalletFaults
    BY WalletConstants DEF WalletInv, WalletTypeOK, MagicFails, WalletFault, WalletConstants
  <1>3. WalletTypeOK'
    <2>1. request' = [request EXCEPT ![r].phase = "failed"]
      BY DEF MagicFails
    <2>2. request' \in [Requests -> RequestsOf]
      BY <2>1, PhaseMoves, TypesOf DEF WalletInv
    <2>3. generated' \in [Emails -> SUBSET Addresses]
      BY <1>1, TypesOf DEF WalletInv
    <2> QED
      BY <1>2, <2>2, <2>3, TypesOf, TypesOfNext DEF WalletInv, MagicFails
  <1>4. \A d \in Emails : generated[d] \subseteq generated'[d]
    BY <1>1 DEF WalletInv, WalletTypeOK
  <1>5. AnswersAreTheirs'
    BY <1>4 DEF WalletInv, WalletTypeOK, AnswersAreTheirs, MagicFails
  <1> QED
    BY <1>3, <1>4, <1>5, RowsKeep DEF MagicFails

LEMMA TickInv ==
  ASSUME WalletInv, WalletTick
  PROVE  WalletInv'
  <1>1. WalletTypeOK'
    BY WalletConstants DEF WalletInv, WalletTypeOK, WalletTick, WalletConstants
  <1>2. \A e \in Emails : /\ wallet'[e].status = wallet[e].status
                          /\ wallet'[e].address = wallet[e].address
    BY DEF WalletInv, WalletTypeOK, WalletTick
  <1>3. AnswersAreTheirs'
    BY DEF WalletInv, AnswersAreTheirs, WalletTick
  <1> QED
    BY <1>1, <1>2, <1>3, RowsKeep DEF WalletTick

LEMMA WalletStepInv == WalletInv /\ [WalletNext]_walletVars => WalletInv'
  <1> SUFFICES ASSUME WalletInv, [WalletNext]_walletVars PROVE WalletInv'
    OBVIOUS
  <1>1. CASE UNCHANGED walletVars
    BY <1>1 DEF WalletInv, WalletTypeOK, ShownIsKept, AddressIsItsOwn, AnswersAreTheirs,
                walletVars
  <1>2. ASSUME NEW r \in Requests, NEW e \in Emails, ReadWallet(r, e) PROVE WalletInv'
    BY <1>2, ReadWalletInv
  <1>3. ASSUME NEW r \in Requests, WalletStep(r) PROVE WalletInv'
    BY <1>3, BeginInv, AskMagicInv, RecordReadyInv, RecordFailedInv, ReloadInv DEF WalletStep
  <1>4. ASSUME NEW r \in Requests, MagicFails(r) \/ WalletCrash(r) PROVE WalletInv'
    BY <1>4, MagicFailsInv, CrashInv
  <1>5. CASE WalletTick
    BY <1>5, TickInv
  <1> QED
    BY <1>1, <1>2, <1>3, <1>4, <1>5 DEF WalletNext

(* ensureVerifiedEmailWallet keeps what it has shown: the address an owner   *)
(* saw stays the one in the row, it was generated for that Email, and no     *)
(* other Email has it.                                                      *)
THEOREM WalletIsKept == WalletSpec => []WalletsAreKept
  <1>1. WalletInv => WalletsAreKept
    BY DEF WalletInv, WalletsAreKept
  <1> QED
    BY <1>1, WalletInitInv, WalletStepInv, PTL DEF WalletSpec

(* Only the attempt whose lease is in the row ends it: a request that lost   *)
(* its lease to another one, or that was recorded as failed, changes        *)
(* nothing any more (the conditions of recordEmailWalletReady and           *)
(* recordEmailWalletFailure).                                               *)
LateAnswersAreDropped ==
    \A e \in Emails :
        wallet[e].status = "provisioning" /\ wallet'[e].status # "provisioning" =>
            \E r \in Requests : /\ wallet[e].lease = r
                                /\ request[r].email = e
                                /\ request[r].phase \in {"ready", "failed"}

\* An answer of Magic that comes after another request has taken the row over
\* changes nothing (the conditions on the lease in email-wallets.ts).
THEOREM LateAnswers == WalletSpec => [][LateAnswersAreDropped]_walletVars
  <1>1. ASSUME WalletInv, [WalletNext]_walletVars
        PROVE  [LateAnswersAreDropped]_walletVars
    <2> SUFFICES ASSUME NEW e \in Emails, wallet[e].status = "provisioning",
                        wallet'[e].status # "provisioning"
                 PROVE  \E r \in Requests : /\ wallet[e].lease = r
                                            /\ request[r].email = e
                                            /\ request[r].phase \in {"ready", "failed"}
      BY DEF LateAnswersAreDropped
    <2>0. WalletTypeOK
      BY <1>1 DEF WalletInv
    <2>1. \A r \in Requests : Orphaned(r)[e].status = wallet[e].status
      BY <2>0, OrphanedRows
    <2>2. ASSUME NEW r \in Requests, NEW d \in Emails, ReadWallet(r, d) PROVE FALSE
      BY <2>2 DEF ReadWallet
    <2>3. ASSUME NEW r \in Requests, MagicFails(r) \/ WalletCrash(r) \/ ReloadWallet(r) PROVE FALSE
      BY <2>1, <2>3 DEF MagicFails, WalletCrash, ReloadWallet
    <2>4. CASE WalletTick
      BY <2>0, <2>4 DEF WalletTick, WalletTypeOK
    <2>5. ASSUME NEW r \in Requests, NEW a \in Addresses, AskMagic(r, a) PROVE FALSE
      BY <2>5 DEF AskMagic
    <2>6. ASSUME NEW r \in Requests, BeginProvisioning(r) PROVE FALSE
      BY <2>0, <2>6 DEF BeginProvisioning, WalletTypeOK
    <2>7. ASSUME NEW r \in Requests, RecordReady(r) \/ RecordFailed(r)
          PROVE  /\ wallet[e].lease = r /\ request[r].email = e
                 /\ request[r].phase \in {"ready", "failed"}
      BY <2>0, <2>7 DEF RecordReady, RecordFailed, Holds, WalletTypeOK
    <2> QED
      BY <1>1, <2>2, <2>3, <2>4, <2>5, <2>6, <2>7 DEF WalletNext, WalletStep, walletVars
  <1> QED
    BY <1>1, WalletInitInv, WalletStepInv, PTL DEF WalletSpec

------------------------------------------------------------------------------
(* The personal archive: what the tab has at each stage is a beginning of    *)
(* what the manifest's releases hold.                                        *)

Plain == Lists \ RecordLists
LastStages == {"contents", "items", "extra", "drops", "done"}
Stages == Lists \cup {"memberships", "profiles", "contents", "drops", "done"}
Cards(v) == PrivateCards[Edition(v, "collections")] \ PublicDrops[Edition(v, "catalog")]
Public(v) == PublicDrops[Edition(v, "catalog")]

\* A tab that has its manifest.
Tabs ==
  [ at : Stages, of : 1..MaxVersion, first : 0..MaxVersion, moved : BOOLEAN,
    cursor : Nat, seen : SUBSET Nat, busy : Nat, collection : Nat,
    got : [Lists -> SUBSET (Nat \ {0})],
    known : SUBSET (Nat \X {"public", "private", "old", "new"}),
    gone : SUBSET Nat, asked : SUBSET Nat, members : SUBSET (Nat \X Nat),
    profiles : SUBSET Nat, read : SUBSET Nat ]

\* The lists that are still to be read.
Unread(at) ==
  CASE at = "holdings" -> {"moments", "tagged", "capsules", "owned"}
    [] at = "moments" -> {"tagged", "capsules", "owned"}
    [] at = "tagged" -> {"capsules", "owned"}
    [] at \in {"capsules", "memberships"} -> {"owned"}
    [] OTHER -> {}

\* The release that the rows at hand are taken from.
Source(t) == IF t.at = "moments" THEN t.first ELSE t.of

\* A list is read to its cursor, to its end, or not yet.
PlainRead(t) ==
  \A l \in Plain :
    /\ l = t.at => t.got[l] = {k \in RowsOf(Source(t), l, 0) : k <= t.cursor}
    /\ l \in Unread(t.at) => t.got[l] = {}
    /\ l # t.at /\ l \notin Unread(t.at) => t.got[l] = RowsOf(t.of, l, 0)

\* The records of the Collections that were begun, of the last one to the cursor.
RecordsRead(t) ==
  \A l \in RecordLists :
    t.got[l] = {k \in Keys[l][Edition(t.of, "collections")] :
                  /\ CollectionOf(k) \in t.read
                  /\ CollectionOf(k) = t.collection =>
                       ~(t.at = "items" /\ l = "extra") /\ (t.at = l => k <= t.cursor)}

\* Cursors only go forward, and belong to the release they were given by.
CursorRight(t) ==
  /\ \A s \in t.seen : s <= t.cursor
  /\ t.at = "moments" /\ t.first = 0 => t.cursor = 0

\* What was asked for so far, and what a stage leaves complete.
ReferencesRead(t) ==
  /\ t.asked \subseteq HeldDrops(t)
  /\ t.members = MembershipsOf(t.of, t.asked)
  /\ t.at \in {"owned", "profiles"} \cup LastStages => t.asked = HeldDrops(t)
  /\ t.profiles \subseteq Needed(t)
  /\ t.at \in LastStages => t.profiles = Needed(t)
  /\ t.read \subseteq t.got["owned"]
  /\ t.at \notin LastStages => t.read = {}
  /\ t.at \in {"drops", "done"} => t.read = t.got["owned"]
  /\ t.at \in RecordLists => t.collection \in t.read

\* A Drop is described once or listed as gone, as the releases have it.
DetailsRead(t) ==
  /\ IsFiniteSet(t.known)
  /\ \A p, q \in t.known : p[1] = q[1] => p = q
  /\ \A p \in t.known :
       /\ p[1] \notin t.gone
       /\ p[2] = "public" <=> p[1] \in Public(t.of)
       /\ p[2] = "private" <=> p[1] \in HeldDrops(t) /\ p[1] \in Cards(t.of)
  /\ \A d \in t.gone : d \notin Public(t.of) /\ (d \in HeldDrops(t) => d \notin Cards(t.of))
  /\ HeldDrops(t) \subseteq Known(t) \cup t.gone
  /\ Known(t) \cup t.gone \subseteq Referenced(t)
  /\ t.at = "holdings" => Known(t) \cup t.gone = HeldDrops(t)
  /\ t.at = "done" => Referenced(t) = Known(t) \cup t.gone

Reading(t) ==
  PlainRead(t) /\ RecordsRead(t) /\ CursorRight(t) /\ ReferencesRead(t) /\ DetailsRead(t)

\* As long as no version was rolled out one version answers.
Undisturbed(t) ==
  \A v \in serving :
    /\ Same(v, t.of, Sources)
    /\ t.first # 0 => Same(v, t.first, {"moments"})
    /\ t.at = "holdings" =>
         /\ \A p \in t.known : p[2] = Detail(t.of, p[1])
         /\ \A d \in t.gone : Detail(t.of, d) = "none"

OneVersion == \A v, w \in serving : v = w

NoTabs == {NoExport} \cup
          [at : {"stopped"}, moved : BOOLEAN,
           why : {"broken", "changed", "refused", "busy", "cancelled", "unavailable"}]
Firsts == [at : {"manifest"}, busy : Nat, cursor : {0}, moved : BOOLEAN]

ExportInv ==
  /\ newest \in 1..MaxVersion /\ serving \in SUBSET (1..newest)
  /\ ~split => ("catalog" \in changed <=> "holdings" \in changed)
  /\ \/ tab \in NoTabs \cup Firsts
     \/ tab \in Tabs /\ tab.of <= newest /\ Reading(tab)
  /\ Running /\ ~tab.moved => OneVersion /\ (tab.at # "manifest" => Undisturbed(tab))
  /\ ~split => StopsOnlyForChange

LEMMA RowsAreNumbers ==
  ASSUME NEW v, NEW l \in Lists, NEW c
  PROVE  /\ RowsOf(v, l, c) \in SUBSET (Nat \ {0}) /\ IsFiniteSet(RowsOf(v, l, c))
         /\ Keys[l][Edition(v, SourceOf(l))] \in SUBSET (Nat \ {0})
         /\ IsFiniteSet(Keys[l][Edition(v, SourceOf(l))])
<1>1. Edition(v, SourceOf(l)) \in {"old", "new"}
  BY DEF Edition
<1>2. /\ Keys[l][Edition(v, SourceOf(l))] \in SUBSET (Nat \ {0})
      /\ IsFiniteSet(Keys[l][Edition(v, SourceOf(l))])
  BY <1>1, ExportAssumption
<1>3. RowsOf(v, l, c) \in SUBSET Keys[l][Edition(v, SourceOf(l))]
  BY DEF RowsOf
<1> QED
  BY <1>2, <1>3, FS_Subset

\* A page is the beginning of what is left, all of it if it is the last one.
PagesWell(rows, after) ==
  LET page == PageOf(rows, after) IN
  /\ page \in SUBSET rows /\ IsFiniteSet(page) /\ \A k \in page : k > after
  /\ LastPage(rows, after) => page = {k \in rows : k > after}
  /\ ~LastPage(rows, after) =>
       /\ Max(page) \in page
       /\ {k \in rows : k <= Max(page)} = {k \in rows : k <= after} \cup page

LEMMA PageWell ==
  ASSUME NEW rows \in SUBSET Nat, IsFiniteSet(rows), NEW after \in Nat
  PROVE  PagesWell(rows, after)
<1> DEFINE page == PageOf(rows, after)
           left == {k \in rows : k > after}
           Before(k) == {j \in rows : after < j /\ j < k}
<1>1. page = {k \in left : Cardinality(Before(k)) < Limit}
  BY DEF PageOf
<1>2. IsFiniteSet(left) /\ Cardinality(left) \in Nat /\ left \in SUBSET rows
  BY FS_Subset, FS_CardinalityType
<1>3. IsFiniteSet(page) /\ page \in SUBSET left
  BY <1>1, <1>2, FS_Subset
<1>4. \A k \in left : IsFiniteSet(Before(k)) /\ Cardinality(Before(k)) \in Nat
  BY FS_Subset, FS_CardinalityType
<1>5. ASSUME NEW k \in left
      PROVE  Cardinality(Before(k)) < Cardinality(left)
  <2>1. k \notin Before(k) /\ Before(k) \in SUBSET left
    OBVIOUS
  <2> HIDE DEF Before, left
  <2> QED
    BY <1>2, <1>4, <1>5, <2>1, FS_Subset
<1>6. ASSUME LastPage(rows, after) PROVE page = left
  <2>1. Cardinality(left) <= Limit
    BY <1>6 DEF LastPage
  <2>2. Limit \in Nat
    BY ExportAssumption
  <2> HIDE DEF left, page, Before
  <2>3. \A k \in left : Cardinality(Before(k)) < Limit
    BY <1>2, <1>4, <1>5, <2>1, <2>2
  <2> QED
    BY <1>1, <2>3
<1>7. ASSUME ~LastPage(rows, after)
      PROVE  /\ Max(page) \in page
             /\ {k \in rows : k <= Max(page)} = {k \in rows : k <= after} \cup page
  <2>1. left # {}
    <3>1. SUFFICES ASSUME left = {} PROVE FALSE
      OBVIOUS
    <3>2. Cardinality(left) = 0
      BY <3>1, FS_EmptySet
    <3> QED
      BY <1>7, <3>2, ExportAssumption DEF LastPage
  <2>2. PICK x \in left : \A y \in left : x <= y
    BY <2>1, LeastOf
  <2>3. Before(x) = {}
    <3>1. SUFFICES ASSUME NEW j \in rows, after < j, j < x PROVE FALSE
      OBVIOUS
    <3>2. j \in left /\ j \in Nat /\ x \in Nat
      BY <3>1
    <3> QED
      BY <2>2, <3>1, <3>2
  <2>4. x \in page
    BY <1>1, <2>3, FS_EmptySet, ExportAssumption
  <2>5. Max(page) \in page /\ \A k \in page : k <= Max(page)
    BY <1>3, <2>4, MaxOf
  <2>6. ASSUME NEW j \in left, j <= Max(page) PROVE j \in page
    <3>1. Max(page) \in left /\ Cardinality(Before(Max(page))) < Limit
      BY <1>1, <2>5
    <3>2. Before(j) \in SUBSET Before(Max(page))
      <4>1. PICK m \in left : m = Max(page)
        BY <3>1
      <4>2. \A i \in rows : i < j => i < m
        <5> TAKE i \in rows
        <5>1. i \in Nat /\ j \in Nat /\ m \in Nat /\ j <= m
          BY <2>6, <4>1
        <5> QED
          BY <5>1
      <4> QED
        BY <4>1, <4>2
    <3>3. Cardinality(Before(j)) <= Cardinality(Before(Max(page)))
      BY <1>4, <3>1, <3>2, FS_Subset
    <3> HIDE DEF Before, left
    <3>4. Cardinality(Before(j)) < Limit
      BY <1>4, <3>1, <3>3, ExportAssumption
    <3> QED
      BY <1>1, <3>4
  <2> DEFINE m == Max(page)
  <2>7. m \in Nat /\ m > after
    BY <1>3, <2>5
  <2> HIDE DEF m
  <2>8. \A k \in left : k <= m => k \in page
    BY <2>6 DEF m
  <2>9. \A k \in page : k <= m
    BY <2>5 DEF m
  <2> HIDE DEF page
  <2>10. \A k \in rows : k <= m <=> k <= after \/ k \in page
    <3> TAKE k \in rows
    <3>1. k \in Nat
      OBVIOUS
    <3>2. k \in left <=> k > after
      BY DEF left
    <3> QED
      BY <1>3, <2>7, <2>8, <2>9, <3>1, <3>2
  <2>11. {k \in rows : k <= m} = {k \in rows : k <= after} \cup page
    BY <1>3, <2>10 DEF left
  <2> QED
    BY <2>5, <2>11 DEF m
<1> HIDE DEF page, left
<1>8. page \in SUBSET rows /\ \A k \in page : k > after
  BY <1>3 DEF left
<1> QED
  BY <1>3, <1>6, <1>7, <1>8 DEF PagesWell, page, left

LEMMA FitMeans ==
  ASSUME NEW w, Fits(w), tab.at \in Stages
  PROVE  /\ tab.at = "holdings" => Same(w, tab.of, {"holdings", "catalog", "collections"})
         /\ tab.at = "moments" => (tab.first # 0 => Same(w, tab.first, {"moments"}))
         /\ tab.at \in {"tagged", "capsules"} => Same(w, tab.of, {"moments"})
         /\ tab.at \in {"memberships", "owned", "profiles", "contents", "items", "extra"}
              => Same(w, tab.of, {"collections"})
         /\ tab.at = "drops" => SnapshotId(w, "catalog") = SnapshotId(tab.of, "holdings")
<1>1. CASE tab.at = "holdings"
  BY <1>1 DEF Fits
<1>2. CASE tab.at = "moments"
  BY <1>2 DEF Fits
<1>3. CASE tab.at \in {"tagged", "capsules"}
  BY <1>3 DEF Fits
<1>4. CASE tab.at = "drops"
  BY <1>4 DEF Fits
<1>5. CASE tab.at \in {"memberships", "owned", "profiles", "contents", "items", "extra", "done"}
  BY <1>5 DEF Fits
<1> QED
  BY <1>1, <1>2, <1>3, <1>4, <1>5 DEF Stages, Lists, MomentLists, RecordLists

LEMMA SameIsSame ==
  ASSUME NEW v, NEW w, NEW l \in Lists, NEW c, Same(v, w, {SourceOf(l)})
  PROVE  RowsOf(v, l, c) = RowsOf(w, l, c)
BY DEF Same, RowsOf

\* A page that fits goes on where the list was left.
LEMMA GoesOn ==
  ASSUME tab \in Tabs, tab.at \in Lists, PlainRead(tab), RecordsRead(tab), CursorRight(tab),
         ReferencesRead(tab), NEW w, Fits(w)
  PROVE  /\ Own(tab, tab.at) =
              {k \in RowsOf(w, tab.at, tab.collection) : k <= tab.cursor}
         /\ tab.at \notin {"moments"} =>
              RowsOf(w, tab.at, tab.collection) = RowsOf(tab.of, tab.at, tab.collection)
         /\ tab.at = "moments" /\ tab.first # 0 =>
              RowsOf(w, tab.at, tab.collection) = RowsOf(tab.first, tab.at, tab.collection)
<1> DEFINE l == tab.at
           c == tab.collection
<1>1. tab.at \in Stages /\ tab.cursor \in Nat
  BY DEF Tabs
<1>2. l # "moments" => Same(w, tab.of, {SourceOf(l)})
  BY <1>1, FitMeans DEF Lists, MomentLists, RecordLists, SourceOf, Same
<1>3. l = "moments" /\ tab.first # 0 => Same(w, tab.first, {SourceOf(l)})
  BY <1>1, FitMeans DEF MomentLists, SourceOf, Same
<1>4. l # "moments" => RowsOf(w, l, c) = RowsOf(tab.of, l, c)
  BY <1>2, SameIsSame
<1>5. l = "moments" /\ tab.first # 0 => RowsOf(w, l, c) = RowsOf(tab.first, l, c)
  BY <1>3, SameIsSame
<1>6. CASE l \in RecordLists
  <2>1. RowsOf(w, l, c) = RowsOf(tab.of, l, c) /\ l # "moments" /\ SourceOf(l) = "collections"
    BY <1>4, <1>6 DEF RecordLists, SourceOf, MomentLists
  <2>2. RowsOf(tab.of, l, c) = {k \in Keys[l][Edition(tab.of, "collections")] : CollectionOf(k) = c}
    BY <1>6, <2>1 DEF RowsOf
  <2>3. Own(tab, l) = {k \in tab.got[l] : CollectionOf(k) = c}
    BY <1>6 DEF Own
  <2>4. tab.got[l] = {k \in Keys[l][Edition(tab.of, "collections")] :
                  /\ CollectionOf(k) \in tab.read
                  /\ CollectionOf(k) = tab.collection =>
                       ~(tab.at = "items" /\ l = "extra") /\ (tab.at = l => k <= tab.cursor)}
    BY <1>6 DEF RecordsRead
  <2>5. c \in tab.read /\ ~(tab.at = "items" /\ l = "extra")
    BY <1>6 DEF ReferencesRead
  <2>6. Own(tab, l) = {k \in Keys[l][Edition(tab.of, "collections")] :
                         CollectionOf(k) = c /\ k <= tab.cursor}
    BY <2>3, <2>4, <2>5
  <2> QED
    BY <1>4, <2>1, <2>2, <2>6
<1>7. CASE l \notin RecordLists
  <2>1. l \in Plain /\ RowsOf(Source(tab), l, c) = RowsOf(Source(tab), l, 0)
    BY <1>7 DEF Plain, RowsOf
  <2>2. Own(tab, l) = {k \in RowsOf(Source(tab), l, c) : k <= tab.cursor}
    BY <1>7, <2>1 DEF PlainRead, Own
  <2>3. CASE l # "moments" \/ tab.first # 0
    BY <1>4, <1>5, <2>2, <2>3 DEF Source
  <2>4. CASE l = "moments" /\ tab.first = 0
    <3>1. tab.cursor = 0
      BY <2>4 DEF CursorRight
    <3>2. \A v : {k \in RowsOf(v, l, c) : k <= 0} = {}
      <4> TAKE v
      <4>1. RowsOf(v, l, c) \in SUBSET (Nat \ {0})
        BY RowsAreNumbers
      <4> QED
        BY <4>1
    <3> QED
      BY <1>4, <1>5, <2>2, <3>1, <3>2
  <2> QED
    BY <2>3, <2>4
<1> QED
  BY <1>4, <1>5, <1>6, <1>7

LEMMA NumbersStay ==
  /\ \A k \in Nat : CollectionOf(k) \in Nat /\ DropOf(k) \in Nat
  /\ \A k \in Nat : HeldDrop(k) \in Nat
BY DEF CollectionOf, DropOf, HeldDrop

LEMMA DetailIsOne ==
  ASSUME NEW v, NEW d
  PROVE  /\ Detail(v, d) \in {"public", "private", "old", "new", "none"}
         /\ Detail(v, d) = "public" <=> d \in Public(v)
         /\ Detail(v, d) = "private" <=> d \in Cards(v)
<1>1. Edition(v, "media") \in {"old", "new"}
  BY DEF Edition
<1>2. CASE d \in PublicDrops[Edition(v, "catalog")]
  BY <1>2 DEF Detail, Public, Cards
<1>3. CASE d \notin PublicDrops[Edition(v, "catalog")] /\ d \in PrivateCards[Edition(v, "collections")]
  BY <1>3 DEF Detail, Public, Cards
<1>4. CASE /\ d \notin PublicDrops[Edition(v, "catalog")]
           /\ d \notin PrivateCards[Edition(v, "collections")]
           /\ d \in ArtworkDrops[Edition(v, "media")]
  BY <1>1, <1>4 DEF Detail, Public, Cards
<1>5. CASE /\ d \notin PublicDrops[Edition(v, "catalog")]
           /\ d \notin PrivateCards[Edition(v, "collections")]
           /\ d \notin ArtworkDrops[Edition(v, "media")]
  BY <1>5 DEF Detail, Public, Cards
<1> QED
  BY <1>2, <1>3, <1>4, <1>5

\* What a page adds to the tab, field by field.
Grown(n, w, page, drops) ==
  /\ n \in Tabs
  /\ n.at = tab.at /\ n.of = tab.of /\ n.moved = tab.moved /\ n.cursor = tab.cursor
  /\ n.seen = tab.seen /\ n.collection = tab.collection /\ n.asked = tab.asked
  /\ n.members = tab.members /\ n.profiles = tab.profiles /\ n.read = tab.read
  /\ n.first = IF tab.at = "moments" /\ tab.first = 0 THEN w ELSE tab.first
  /\ n.got = [tab.got EXCEPT ![tab.at] = tab.got[tab.at] \cup page]
  /\ n.known = tab.known \cup
                 {<<d, Detail(w, d)>> : d \in {e \in drops : Detail(w, e) # "none"}}
  /\ n.gone = tab.gone \cup {d \in drops : Detail(w, d) = "none"}

DropsOf(page) == IF tab.at = "holdings" THEN {HeldDrop(k) : k \in page} ELSE {}

LEMMA PageGrows ==
  ASSUME tab \in Tabs, tab.at \in Lists, NEW w \in 1..MaxVersion,
         NEW page \in SUBSET (Nat \ {0})
  PROVE  Grown(With(w, page), w, page, DropsOf(page))
<1> DEFINE drops == DropsOf(page)
           known == tab.known \cup
                 {<<d, Detail(w, d)>> : d \in {e \in drops : Detail(w, e) # "none"}}
           gone == tab.gone \cup {d \in drops : Detail(w, d) = "none"}
           got == [tab.got EXCEPT ![tab.at] = tab.got[tab.at] \cup page]
           first == IF tab.at = "moments" /\ tab.first = 0 THEN w ELSE tab.first
<1>1. drops \in SUBSET Nat
  BY NumbersStay DEF DropsOf
<1>2. known \in SUBSET (Nat \X {"public", "private", "old", "new"})
  <2>1. \A d \in drops : Detail(w, d) # "none" =>
           <<d, Detail(w, d)>> \in Nat \X {"public", "private", "old", "new"}
    BY <1>1, DetailIsOne
  <2>2. tab.known \in SUBSET (Nat \X {"public", "private", "old", "new"})
    BY DEF Tabs
  <2> QED
    BY <2>1, <2>2
<1>3. gone \in SUBSET Nat /\ got \in [Lists -> SUBSET (Nat \ {0})] /\ first \in 0..MaxVersion
  <2>1. tab.gone \in SUBSET Nat /\ tab.got \in [Lists -> SUBSET (Nat \ {0})]
        /\ tab.first \in 0..MaxVersion /\ MaxVersion \in Nat
    BY ExportAssumption DEF Tabs
  <2>2. gone \in SUBSET Nat
    BY <1>1, <2>1
  <2>3. got \in [Lists -> SUBSET (Nat \ {0})]
    BY <2>1
  <2> QED
    BY <2>1, <2>2, <2>3
<1> HIDE DEF known, gone, got, first
<1>4. With(w, page) =
        [tab EXCEPT !.got = got, !.first = first, !.known = known, !.gone = gone]
  <2>1. With(w, page) =
          [tab EXCEPT !.got = [tab.got EXCEPT ![tab.at] = tab.got[tab.at] \cup page],
             !.first = IF tab.at = "moments" /\ tab.first = 0 THEN w ELSE tab.first,
             !.known = tab.known \cup {<<d, Detail(w, d)>> : d \in {e \in drops : Detail(w, e) # "none"}},
             !.gone = tab.gone \cup {d \in drops : Detail(w, d) = "none"}]
    BY DEF With, DropsOf
  <2> QED
    BY <2>1 DEF got, first, known, gone
<1> DEFINE n == [tab EXCEPT !.got = got, !.first = first, !.known = known, !.gone = gone]
<1>5. /\ n \in Tabs
      /\ n.at = tab.at /\ n.of = tab.of /\ n.moved = tab.moved /\ n.cursor = tab.cursor
      /\ n.seen = tab.seen /\ n.collection = tab.collection /\ n.asked = tab.asked
      /\ n.members = tab.members /\ n.profiles = tab.profiles /\ n.read = tab.read
      /\ n.first = first /\ n.got = got /\ n.known = known /\ n.gone = gone
  BY <1>2, <1>3 DEF Tabs
<1> HIDE DEF n
<1> QED
  BY <1>4, <1>5 DEF Grown, n, got, first, known, gone

\* What a page describes, if it is a page of holdings.
Described(w, drops) == {<<d, Detail(w, d)>> : d \in {e \in drops : Detail(w, e) # "none"}}

LEMMA DescribedIsFinite ==
  ASSUME NEW w, NEW page, IsFiniteSet(page)
  PROVE  IsFiniteSet(Described(w, DropsOf(page)))
<1> DEFINE drops == DropsOf(page)
           some == {e \in drops : Detail(w, e) # "none"}
           f == [k \in page |-> HeldDrop(k)]
           g == [d \in some |-> <<d, Detail(w, d)>>]
<1>1. CASE tab.at = "holdings"
  <2>1. drops = {HeldDrop(k) : k \in page}
    BY <1>1 DEF DropsOf
  <2>2. f \in Surjection(page, drops)
    BY <2>1 DEF Surjection
  <2>3. IsFiniteSet(drops)
    <3> HIDE DEF f, drops
    <3> QED
      BY <2>2, FS_Surjection
  <2>4. IsFiniteSet(some)
    <3> HIDE DEF drops
    <3> QED
      BY <2>3, FS_Subset
  <2>5. g \in Surjection(some, Described(w, drops))
    <3>1. Described(w, drops) = {<<d, Detail(w, d)>> : d \in some}
      BY DEF Described
    <3> HIDE DEF some, drops
    <3> QED
      BY <3>1 DEF Surjection
  <2> HIDE DEF g, some, drops
  <2>6. IsFiniteSet(Described(w, drops))
    BY <2>4, <2>5, FS_Surjection
  <2> QED
    BY <2>6 DEF drops
<1>2. CASE tab.at # "holdings"
  <2>1. Described(w, drops) = {}
    BY <1>2 DEF Described, DropsOf
  <2> QED
    BY <2>1, FS_EmptySet
<1> QED
  BY <1>1, <1>2

LEMMA HeldGrow ==
  ASSUME tab \in Tabs, tab.at \in Lists, NEW w, NEW page, NEW n,
         Grown(n, w, page, DropsOf(page))
  PROVE  /\ HeldDrops(n) = HeldDrops(tab) \cup DropsOf(page)
         /\ Referenced(tab) \subseteq Referenced(n)
         /\ Known(n) \cup n.gone = Known(tab) \cup tab.gone \cup DropsOf(page)
         /\ DropsOf(page) \subseteq Referenced(n)
         /\ \A l \in Lists : tab.got[l] \subseteq n.got[l] /\ (l # tab.at => n.got[l] = tab.got[l])
         /\ n.got[tab.at] = tab.got[tab.at] \cup page
<1>1. /\ n.got = [tab.got EXCEPT ![tab.at] = tab.got[tab.at] \cup page]
      /\ tab.got \in [Lists -> SUBSET (Nat \ {0})]
  BY DEF Grown, Tabs
<1>2. /\ \A l \in Lists : tab.got[l] \subseteq n.got[l] /\ (l # tab.at => n.got[l] = tab.got[l])
      /\ n.got[tab.at] = tab.got[tab.at] \cup page
  BY <1>1
<1>3. "holdings" \in Lists /\ MomentLists \subseteq Lists /\ RecordLists \subseteq Lists
  BY DEF Lists
<1>4. HeldDrops(n) = HeldDrops(tab) \cup DropsOf(page)
  <2>1. CASE tab.at = "holdings"
    <3>1. n.got["holdings"] = tab.got["holdings"] \cup page
      BY <1>2, <2>1
    <3> QED
      BY <2>1, <3>1 DEF HeldDrops, DropsOf
  <2>2. CASE tab.at # "holdings"
    <3>1. n.got["holdings"] = tab.got["holdings"]
      BY <1>2, <1>3, <2>2
    <3> QED
      BY <2>2, <3>1 DEF HeldDrops, DropsOf
  <2> QED
    BY <2>1, <2>2
<1>5. Referenced(tab) \subseteq Referenced(n)
  <2>1. /\ tab.got["moments"] \subseteq n.got["moments"]
        /\ tab.got["tagged"] \subseteq n.got["tagged"]
        /\ tab.got["items"] \subseteq n.got["items"]
        /\ tab.got["extra"] \subseteq n.got["extra"]
    BY <1>2 DEF Lists, MomentLists, RecordLists
  <2>2. TheirMoments(tab) \subseteq TheirMoments(n)
    BY <2>1 DEF TheirMoments
  <2>3. {DropOf(k) : k \in tab.got["items"] \cup tab.got["extra"]}
          \subseteq {DropOf(k) : k \in n.got["items"] \cup n.got["extra"]}
    BY <2>1
  <2> QED
    BY <1>4, <2>2, <2>3 DEF Referenced
<1>6. Known(n) \cup n.gone = Known(tab) \cup tab.gone \cup DropsOf(page)
  <2>1. n.known = tab.known \cup Described(w, DropsOf(page))
    BY DEF Grown, Described
  <2>2. n.gone = tab.gone \cup {d \in DropsOf(page) : Detail(w, d) = "none"}
    BY DEF Grown
  <2>3. {p[1] : p \in Described(w, DropsOf(page))} = {e \in DropsOf(page) : Detail(w, e) # "none"}
    <3>1. \A p \in Described(w, DropsOf(page)) : p[1] \in DropsOf(page) /\ Detail(w, p[1]) # "none"
      BY DEF Described
    <3>2. ASSUME NEW e \in DropsOf(page), Detail(w, e) # "none"
          PROVE  \E p \in Described(w, DropsOf(page)) : p[1] = e
      <4>1. <<e, Detail(w, e)>> \in Described(w, DropsOf(page))
        BY <3>2 DEF Described
      <4> QED
        BY <4>1
    <3> HIDE DEF Described
    <3> QED
      BY <3>1, <3>2
  <2>4. Known(n) = Known(tab) \cup {e \in DropsOf(page) : Detail(w, e) # "none"}
    BY <2>1, <2>3 DEF Known
  <2> QED
    BY <2>2, <2>4
<1>7. DropsOf(page) \subseteq Referenced(n)
  BY <1>4 DEF Referenced
<1> QED
  BY <1>2, <1>4, <1>5, <1>6, <1>7

LEMMA DetailsGrow ==
  ASSUME tab \in Tabs, tab.at \in Lists, DetailsRead(tab),
         NEW w, Fits(w), NEW page, IsFiniteSet(page),
         tab.at = "holdings" => ~Contradicted(w, page),
         NEW n, Grown(n, w, page, DropsOf(page))
  PROVE  DetailsRead(n)
<1> DEFINE drops == DropsOf(page)
<1> USE HeldGrow
<1>1. /\ n.known = tab.known \cup Described(w, drops)
      /\ n.gone = tab.gone \cup {d \in drops : Detail(w, d) = "none"}
      /\ n.at = tab.at /\ n.of = tab.of
  BY DEF Grown, Described
<1>2. IsFiniteSet(n.known)
  <2>1. IsFiniteSet(tab.known) /\ IsFiniteSet(Described(w, drops))
    BY DescribedIsFinite DEF DetailsRead
  <2> HIDE DEF drops
  <2>2. IsFiniteSet(tab.known \cup Described(w, drops))
    BY <2>1, FS_Union
  <2> QED
    BY <1>1, <2>2
<1>3. ASSUME tab.at # "holdings" PROVE DetailsRead(n)
  <2>0. drops = {}
    BY <1>3 DEF DropsOf
  <2>1. drops = {} /\ Described(w, drops) = {}
    BY <2>0 DEF Described
  <2>2. n.known = tab.known /\ n.gone = tab.gone /\ HeldDrops(n) = HeldDrops(tab)
    BY <1>1, <2>1
  <2>3. Known(n) = Known(tab) /\ Referenced(tab) \subseteq Referenced(n)
    BY <2>2 DEF Known
  <2>4. n.at # "holdings" /\ n.at # "done"
    BY <1>1, <1>3 DEF Lists, MomentLists, RecordLists
  <2> QED
    BY <1>1, <2>2, <2>3, <2>4 DEF DetailsRead
<1>4. ASSUME tab.at = "holdings" PROVE DetailsRead(n)
  <2>1. Public(w) = Public(tab.of) /\ Cards(w) = Cards(tab.of)
    <3>1. Same(w, tab.of, {"holdings", "catalog", "collections"})
      BY <1>4, FitMeans DEF Tabs
    <3> QED
      BY <3>1 DEF Same, Public, Cards
  <2>2. drops = {HeldDrop(k) : k \in page}
    BY <1>4 DEF DropsOf
  <2>3. \A d \in drops :
          /\ Detail(w, d) # "none" => d \notin tab.gone
          /\ \A p \in tab.known : p[1] = d => p[2] = Detail(w, d)
    BY <1>4, <2>2 DEF Contradicted
  <2>4. \A p \in Described(w, drops) :
          p = <<p[1], Detail(w, p[1])>> /\ p[1] \in drops /\ Detail(w, p[1]) # "none"
    BY DEF Described
  <2>5. \A p \in tab.known : p = <<p[1], p[2]>>
    BY DEF Tabs
  <2>6. ASSUME NEW p \in n.known, NEW q \in n.known, p[1] = q[1] PROVE p = q
    <3>1. CASE p \in tab.known /\ q \in tab.known
      BY <2>6, <3>1 DEF DetailsRead
    <3>2. CASE p \in tab.known /\ q \in Described(w, drops)
      BY <2>3, <2>4, <2>5, <2>6, <3>2
    <3>3. CASE p \in Described(w, drops) /\ q \in tab.known
      BY <2>3, <2>4, <2>5, <2>6, <3>3
    <3>4. CASE p \in Described(w, drops) /\ q \in Described(w, drops)
      BY <2>4, <2>6, <3>4
    <3> QED
      BY <1>1, <3>1, <3>2, <3>3, <3>4
  <2>7. ASSUME NEW p \in n.known
        PROVE  /\ p[1] \notin n.gone
               /\ p[2] = "public" <=> p[1] \in Public(tab.of)
               /\ p[2] = "private" <=> p[1] \in HeldDrops(n) /\ p[1] \in Cards(tab.of)
    <3>1. CASE p \in tab.known
      <4>1. p[1] \in HeldDrops(tab)
        <5>1. p[1] \in Known(tab)
          BY <3>1 DEF Known
        <5> QED
          BY <1>4, <5>1 DEF DetailsRead
      <4>2. p[1] \notin tab.gone
        BY <3>1 DEF DetailsRead
      <4>3. p[2] # "none"
        BY <3>1 DEF Tabs
      <4>4. p[1] \notin n.gone
        BY <1>1, <2>3, <3>1, <4>2, <4>3
      <4>5. /\ p[2] = "public" <=> p[1] \in Public(tab.of)
            /\ p[2] = "private" <=> p[1] \in HeldDrops(tab) /\ p[1] \in Cards(tab.of)
        BY <3>1 DEF DetailsRead
      <4> QED
        BY <4>1, <4>4, <4>5
    <3>2. CASE p \in Described(w, drops)
      <4>1. p[2] = Detail(w, p[1]) /\ p[1] \in drops /\ Detail(w, p[1]) # "none"
        BY <2>4, <3>2
      <4>2. p[1] \notin n.gone
        BY <1>1, <2>3, <4>1
      <4>3. p[1] \in HeldDrops(n)
        BY <4>1
      <4>4. /\ Detail(w, p[1]) = "public" <=> p[1] \in Public(tab.of)
            /\ Detail(w, p[1]) = "private" <=> p[1] \in Cards(tab.of)
        BY <2>1, DetailIsOne
      <4> QED
        BY <4>1, <4>2, <4>3, <4>4
    <3> QED
      BY <1>1, <3>1, <3>2
  <2>8. ASSUME NEW d \in n.gone
        PROVE  d \notin Public(tab.of) /\ (d \in HeldDrops(n) => d \notin Cards(tab.of))
    <3>1. CASE d \in tab.gone
      <4>1. d \in HeldDrops(tab)
        BY <1>4, <3>1 DEF DetailsRead
      <4> QED
        BY <3>1, <4>1 DEF DetailsRead
    <3>2. CASE Detail(w, d) = "none"
      BY <2>1, <3>2, DetailIsOne
    <3> QED
      BY <1>1, <3>1, <3>2
  <2>9. Known(n) \cup n.gone = HeldDrops(n)
    BY <1>4 DEF DetailsRead
  <2>10. HeldDrops(n) \subseteq Referenced(n)
    BY DEF Referenced
  <2>11. n.at = "holdings" /\ n.of = tab.of
    BY <1>1, <1>4
  <2> QED
    BY <1>2, <2>6, <2>7, <2>8, <2>9, <2>10, <2>11 DEF DetailsRead
<1> QED
  BY <1>3, <1>4

LEMMA ReferencesGrow ==
  ASSUME tab \in Tabs, tab.at \in Lists, ReferencesRead(tab),
         NEW w, NEW page, NEW n, Grown(n, w, page, DropsOf(page))
  PROVE  ReferencesRead(n)
<1> USE HeldGrow
<1>1. /\ n.at = tab.at /\ n.of = tab.of /\ n.asked = tab.asked /\ n.members = tab.members
      /\ n.profiles = tab.profiles /\ n.read = tab.read /\ n.collection = tab.collection
  BY DEF Grown
<1>2. tab.at # "holdings" => HeldDrops(n) = HeldDrops(tab)
  <2>1. HeldDrops(n) = HeldDrops(tab) \cup DropsOf(page)
    BY HeldGrow
  <2>2. tab.at # "holdings" => DropsOf(page) = {}
    BY DEF DropsOf
  <2> QED
    BY <2>1, <2>2
<1>3. /\ tab.got["moments"] \subseteq n.got["moments"] /\ tab.got["tagged"] \subseteq n.got["tagged"]
      /\ tab.got["owned"] \subseteq n.got["owned"]
      /\ tab.at \in LastStages =>
           /\ n.got["moments"] = tab.got["moments"] /\ n.got["tagged"] = tab.got["tagged"]
           /\ n.got["owned"] = tab.got["owned"]
  BY DEF Lists, MomentLists, RecordLists, LastStages
<1>4. Needed(tab) \subseteq Needed(n) /\ (tab.at \in LastStages => Needed(n) = Needed(tab))
  BY <1>1, <1>3 DEF Needed, TheirMoments
<1>5. n.asked \subseteq HeldDrops(n) /\ n.members = MembershipsOf(n.of, n.asked)
  BY <1>1 DEF ReferencesRead
<1>6. n.at \in {"owned", "profiles"} \cup LastStages => n.asked = HeldDrops(n)
  BY <1>1, <1>2 DEF ReferencesRead, LastStages
<1>7. n.profiles \subseteq Needed(n) /\ (n.at \in LastStages => n.profiles = Needed(n))
  BY <1>1, <1>4 DEF ReferencesRead
<1>8. /\ n.read \subseteq n.got["owned"]
      /\ n.at \notin LastStages => n.read = {}
      /\ n.at \in RecordLists => n.collection \in n.read
  BY <1>1, <1>3 DEF ReferencesRead
<1>9. n.at \notin {"drops", "done"}
  BY <1>1 DEF Lists, MomentLists, RecordLists
<1> QED
  BY <1>5, <1>6, <1>7, <1>8, <1>9 DEF ReferencesRead

\* What a page adds to the rows, up to B of the list at hand.
LEMMA RowsGrow ==
  ASSUME tab \in Tabs, tab.at \in Lists, Reading(tab), NEW w, Fits(w),
         NEW page, page \subseteq RowsOf(w, tab.at, tab.collection),
         NEW B, B = {k \in RowsOf(w, tab.at, tab.collection) : k <= tab.cursor} \cup page,
         NEW n, Grown(n, w, page, DropsOf(page))
  PROVE  /\ tab.at \in Plain => n.got[tab.at] = B
         /\ tab.at \in RecordLists =>
              n.got[tab.at] = {k \in Keys[tab.at][Edition(tab.of, "collections")] :
                                 CollectionOf(k) \in tab.read
                                 /\ (CollectionOf(k) = tab.collection => k \in B)}
         /\ Own(n, tab.at) = B
<1> DEFINE l == tab.at
           c == tab.collection
<1>1. n.got[l] = tab.got[l] \cup page /\ n.collection = tab.collection
  <2>1. n.got[l] = tab.got[l] \cup page
    BY HeldGrow
  <2>2. n.collection = tab.collection
    BY DEF Grown
  <2> QED
    BY <2>1, <2>2
<1>2. /\ Own(tab, l) = {k \in RowsOf(w, l, c) : k <= tab.cursor}
      /\ l # "moments" => RowsOf(w, l, c) = RowsOf(tab.of, l, c)
  BY GoesOn DEF Reading
<1>3. B = Own(tab, l) \cup page
  BY <1>2
<1>4. CASE l \notin RecordLists
  <2>1. Own(tab, l) = tab.got[l] /\ Own(n, l) = n.got[l]
    BY <1>4 DEF Own
  <2> QED
    BY <1>1, <1>3, <1>4, <2>1
<1>5. CASE l \in RecordLists
  <2>1. /\ l # "moments" /\ SourceOf(l) = "collections" /\ l \notin Plain
        /\ c \in tab.read /\ ~(tab.at = "items" /\ l = "extra")
    BY <1>5 DEF RecordLists, SourceOf, MomentLists, Plain, Reading, ReferencesRead
  <2>2. RowsOf(w, l, c) = {k \in Keys[l][Edition(tab.of, "collections")] : CollectionOf(k) = c}
    BY <1>2, <1>5, <2>1 DEF RowsOf
  <2>3. Own(tab, l) = {k \in tab.got[l] : CollectionOf(k) = c} /\ Own(n, l) = {k \in n.got[l] : CollectionOf(k) = c}
    BY <1>1, <1>5 DEF Own
  <2>4. tab.got[l] = {k \in Keys[l][Edition(tab.of, "collections")] :
                  CollectionOf(k) \in tab.read /\ (CollectionOf(k) = c => k <= tab.cursor)}
    BY <1>5, <2>1 DEF RecordsRead, Reading
  <2>5. page \subseteq {k \in Keys[l][Edition(tab.of, "collections")] : CollectionOf(k) = c}
    BY <2>2
  <2>6. B = {k \in Keys[l][Edition(tab.of, "collections")] : CollectionOf(k) = c /\ (k <= tab.cursor \/ k \in page)}
    BY <2>2, <2>5
  <2>7. \A k : k \in n.got[l] <=>
           /\ k \in Keys[l][Edition(tab.of, "collections")] /\ CollectionOf(k) \in tab.read
           /\ CollectionOf(k) = c => k \in B
    BY <1>1, <2>1, <2>4, <2>5, <2>6
  <2>8. n.got[l] = {k \in Keys[l][Edition(tab.of, "collections")] :
                                 CollectionOf(k) \in tab.read
                                 /\ (CollectionOf(k) = c => k \in B)}
    BY <2>7
  <2>9. Own(n, l) = B
    BY <2>1, <2>3, <2>6, <2>8
  <2> QED
    BY <2>1, <2>8, <2>9
<1> QED
  BY <1>4, <1>5

\* A stage begins: all but the cursor is kept.
Turned(t, u, at) ==
  /\ u \in Tabs
  /\ u.at = at /\ u.cursor = 0 /\ u.seen = {} /\ u.of = t.of /\ u.first = t.first
  /\ u.moved = t.moved /\ u.collection = t.collection /\ u.got = t.got
  /\ u.known = t.known /\ u.gone = t.gone /\ u.asked = t.asked /\ u.members = t.members
  /\ u.profiles = t.profiles /\ u.read = t.read

LEMMA TurnTurns ==
  ASSUME NEW t \in Tabs, NEW at \in Stages
  PROVE  Turned(t, Turn(t, at), at)
<1> DEFINE u == [t EXCEPT !.at = at, !.cursor = 0, !.seen = {}, !.busy = 0]
<1>1. /\ u \in Tabs
      /\ u.at = at /\ u.cursor = 0 /\ u.seen = {} /\ u.of = t.of /\ u.first = t.first
      /\ u.moved = t.moved /\ u.collection = t.collection /\ u.got = t.got
      /\ u.known = t.known /\ u.gone = t.gone /\ u.asked = t.asked /\ u.members = t.members
      /\ u.profiles = t.profiles /\ u.read = t.read
  BY DEF Tabs
<1>2. Turn(t, at) = u
  BY DEF Turn
<1> HIDE DEF u
<1> QED
  BY <1>1, <1>2 DEF Turned

LEMMA TurnedSame ==
  ASSUME NEW t, NEW u, NEW at, Turned(t, u, at)
  PROVE  /\ HeldDrops(u) = HeldDrops(t) /\ Referenced(u) = Referenced(t)
         /\ Needed(u) = Needed(t) /\ Known(u) = Known(t)
BY DEF Turned, HeldDrops, Referenced, Needed, Known, TheirMoments

LEMMA TurnedDetails ==
  ASSUME NEW t, NEW u, NEW at, Turned(t, u, at), DetailsRead(t), at # "holdings",
         at = "done" => Referenced(t) = Known(t) \cup t.gone
  PROVE  DetailsRead(u)
BY TurnedSame DEF DetailsRead, Turned

LEMMA TurnedReferences ==
  ASSUME NEW t, NEW u, NEW at, Turned(t, u, at), ReferencesRead(t),
         at \in {"owned", "profiles"} \cup LastStages => t.asked = HeldDrops(t),
         at \in LastStages => t.profiles = Needed(t),
         at \notin LastStages => t.read = {},
         at \in {"drops", "done"} => t.read = t.got["owned"],
         at \in RecordLists => t.collection \in t.read
  PROVE  ReferencesRead(u)
<1>1. /\ u.at = at /\ u.of = t.of /\ u.asked = t.asked /\ u.members = t.members
      /\ u.profiles = t.profiles /\ u.read = t.read /\ u.collection = t.collection /\ u.got = t.got
  BY DEF Turned
<1> QED
  BY <1>1, TurnedSame DEF ReferencesRead

\* The rows of the list at hand, as the source of its pages has them.
LEMMA SourceHas ==
  ASSUME tab \in Tabs, tab.at \in Plain, Reading(tab), NEW w, Fits(w),
         NEW page, NEW n, Grown(n, w, page, DropsOf(page))
  PROVE  RowsOf(w, tab.at, tab.collection) = RowsOf(Source(n), tab.at, 0)
<1>1. tab.at \in Lists /\ \A v : RowsOf(v, tab.at, tab.collection) = RowsOf(v, tab.at, 0)
  BY DEF Plain, RowsOf
<1>2. /\ n.at = tab.at /\ n.of = tab.of
      /\ n.first = IF tab.at = "moments" /\ tab.first = 0 THEN w ELSE tab.first
  BY DEF Grown
<1>3. CASE tab.at # "moments"
  <2>1. RowsOf(w, tab.at, tab.collection) = RowsOf(tab.of, tab.at, tab.collection)
    BY <1>1, <1>3, GoesOn DEF Reading
  <2> QED
    BY <1>1, <1>2, <1>3, <2>1 DEF Source
<1>4. CASE tab.at = "moments" /\ tab.first # 0
  <2>1. RowsOf(w, tab.at, tab.collection) = RowsOf(tab.first, tab.at, tab.collection)
    BY <1>1, <1>4, GoesOn DEF Reading
  <2> QED
    BY <1>1, <1>2, <1>4, <2>1 DEF Source
<1>5. CASE tab.at = "moments" /\ tab.first = 0
  BY <1>1, <1>2, <1>5 DEF Source
<1> QED
  BY <1>3, <1>4, <1>5

LEMMA TabMoves ==
  ASSUME NEW n \in Tabs, NEW c \in Nat, NEW T \in SUBSET Nat
  PROVE  [n EXCEPT !.cursor = c, !.seen = T, !.busy = 0] \in Tabs
BY DEF Tabs

LEMMA NextPage ==
  ASSUME tab \in Tabs, tab.at \in Lists, Reading(tab), NEW w \in 1..MaxVersion, Fits(w),
         NEW rows, rows = RowsOf(w, tab.at, tab.collection),
         NEW page, page = PageOf(rows, tab.cursor), ~LastPage(rows, tab.cursor),
         PagesWell(rows, tab.cursor), rows \in SUBSET (Nat \ {0}),
         NEW n, Grown(n, w, page, DropsOf(page)), DetailsRead(n),
         NEW m, m = [n EXCEPT !.cursor = Max(page), !.seen = @ \cup {Max(page)}, !.busy = 0]
  PROVE  m \in Tabs /\ Reading(m)
<1>1. /\ page \in SUBSET rows /\ \A k \in page : k > tab.cursor
      /\ Max(page) \in page
      /\ {k \in rows : k <= Max(page)} = {k \in rows : k <= tab.cursor} \cup page
  BY DEF PagesWell
<1>2. PICK c \in Nat \ {0} : c = Max(page) /\ c > tab.cursor
  BY <1>1
<1> DEFINE B == {k \in rows : k <= c}
<1>3. m = [n EXCEPT !.cursor = c, !.seen = n.seen \cup {c}, !.busy = 0]
  BY <1>2
<1>4. n \in Tabs
  BY DEF Grown
<1>5. /\ m \in Tabs
      /\ m.cursor = c /\ m.seen = n.seen \cup {c}
      /\ m.at = n.at /\ m.of = n.of /\ m.first = n.first /\ m.collection = n.collection
      /\ m.got = n.got /\ m.known = n.known /\ m.gone = n.gone /\ m.asked = n.asked
      /\ m.members = n.members /\ m.profiles = n.profiles /\ m.read = n.read
  <2>0. n.seen \in SUBSET Nat
    BY <1>4 DEF Tabs
  <2>1. PICK T \in SUBSET Nat : T = n.seen \cup {c}
    BY <1>2, <2>0
  <2>2. m = [n EXCEPT !.cursor = c, !.seen = T, !.busy = 0]
    BY <1>3, <2>1
  <2>3. m \in Tabs
    <3>1. c \in Nat /\ T \in SUBSET Nat
      BY <1>2, <2>1
    <3>2. [n EXCEPT !.cursor = c, !.seen = T, !.busy = 0] \in Tabs
      BY ZenonT(30), <1>4, <3>1, TabMoves
    <3> QED
      BY ZenonT(30), <2>2, <3>2
  <2>4. m.cursor = c /\ m.seen = n.seen \cup {c}
    BY <1>4, <2>1, <2>2 DEF Tabs
  <2>5. m.at = n.at /\ m.of = n.of /\ m.first = n.first /\ m.collection = n.collection
    BY <1>4, <2>2 DEF Tabs
  <2>6. m.got = n.got /\ m.known = n.known /\ m.gone = n.gone
    BY <1>4, <2>2 DEF Tabs
  <2>7. /\ m.asked = n.asked /\ m.members = n.members
        /\ m.profiles = n.profiles /\ m.read = n.read
    BY <1>4, <2>2 DEF Tabs
  <2> QED
    BY <2>3, <2>4, <2>5, <2>6, <2>7
<1>6. /\ HeldDrops(m) = HeldDrops(n) /\ Referenced(m) = Referenced(n)
      /\ Needed(m) = Needed(n) /\ Known(m) = Known(n) /\ Source(m) = Source(n)
  BY <1>5 DEF HeldDrops, Referenced, Needed, Known, TheirMoments, Source
<1>7. ReferencesRead(m) /\ DetailsRead(m)
  <2>1. ReferencesRead(n)
    BY ReferencesGrow DEF Reading
  <2>2. ReferencesRead(m)
    BY <1>5, <1>6, <2>1 DEF ReferencesRead
  <2>3. DetailsRead(m)
    BY <1>5, <1>6 DEF DetailsRead
  <2> QED
    BY <2>2, <2>3
<1>8. /\ n.at = tab.at /\ n.of = tab.of /\ n.seen = tab.seen /\ n.read = tab.read
      /\ n.collection = tab.collection
      /\ n.first = IF tab.at = "moments" /\ tab.first = 0 THEN w ELSE tab.first
  BY DEF Grown
<1>9. CursorRight(m)
  <2>1. \A s \in tab.seen : s \in Nat /\ s <= tab.cursor
    BY DEF Reading, CursorRight, Tabs
  <2>2. tab.cursor \in Nat
    BY DEF Tabs
  <2>3. \A s \in tab.seen : s <= c
    BY <1>2, <2>1, <2>2
  <2>4. \A s \in m.seen : s <= m.cursor
    BY <1>2, <1>5, <1>8, <2>3
  <2>5. m.at = "moments" => m.first # 0
    BY <1>5, <1>8, ExportAssumption
  <2> QED
    BY <2>4, <2>5 DEF CursorRight
<1>10. /\ \A l \in Lists : l # tab.at => m.got[l] = tab.got[l]
       /\ tab.at \in Plain => m.got[tab.at] = B
       /\ tab.at \in RecordLists =>
              m.got[tab.at] = {k \in Keys[tab.at][Edition(tab.of, "collections")] :
                                 CollectionOf(k) \in tab.read
                                 /\ (CollectionOf(k) = tab.collection => k \in B)}
  <2>1. \A l \in Lists : l # tab.at => n.got[l] = tab.got[l]
    BY HeldGrow
  <2>2. B = {k \in RowsOf(w, tab.at, tab.collection) : k <= tab.cursor} \cup page
    BY <1>1, <1>2
  <2> HIDE DEF B
  <2>3. /\ tab.at \in Plain => n.got[tab.at] = B
        /\ tab.at \in RecordLists =>
              n.got[tab.at] = {k \in Keys[tab.at][Edition(tab.of, "collections")] :
                                 CollectionOf(k) \in tab.read
                                 /\ (CollectionOf(k) = tab.collection => k \in B)}
    BY <1>1, <2>2, RowsGrow
  <2> QED
    BY <1>5, <2>1, <2>3
<1>11. PlainRead(m)
  <2> SUFFICES ASSUME NEW l \in Plain
               PROVE  /\ l = m.at => m.got[l] = {k \in RowsOf(Source(m), l, 0) : k <= m.cursor}
                      /\ l \in Unread(m.at) => m.got[l] = {}
                      /\ l # m.at /\ l \notin Unread(m.at) => m.got[l] = RowsOf(m.of, l, 0)
    BY DEF PlainRead
  <2>1. CASE l = tab.at
    <3>1. rows = RowsOf(Source(m), l, 0)
      BY <1>6, <2>1, SourceHas
    <3>2. l \notin Unread(l)
      BY DEF Unread, Plain, Lists, MomentLists, RecordLists
    <3> QED
      BY <1>5, <1>8, <1>10, <2>1, <3>1, <3>2
  <2>2. CASE l # tab.at
    <3>1. /\ l \in Unread(tab.at) => tab.got[l] = {}
          /\ l # tab.at /\ l \notin Unread(tab.at) => tab.got[l] = RowsOf(tab.of, l, 0)
      BY DEF Reading, PlainRead
    <3>2. l \in Lists
      BY DEF Plain
    <3> QED
      BY <1>5, <1>8, <1>10, <2>2, <3>1, <3>2
  <2> QED
    BY <2>1, <2>2
<1>12. RecordsRead(m)
  <2> SUFFICES ASSUME NEW l \in RecordLists
               PROVE  m.got[l] = {k \in Keys[l][Edition(m.of, "collections")] :
                  /\ CollectionOf(k) \in m.read
                  /\ CollectionOf(k) = m.collection =>
                       ~(m.at = "items" /\ l = "extra") /\ (m.at = l => k <= m.cursor)}
    BY DEF RecordsRead
  <2>1. tab.got[l] = {k \in Keys[l][Edition(tab.of, "collections")] :
                  /\ CollectionOf(k) \in tab.read
                  /\ CollectionOf(k) = tab.collection =>
                       ~(tab.at = "items" /\ l = "extra") /\ (tab.at = l => k <= tab.cursor)}
    BY DEF Reading, RecordsRead
  <2>2. CASE l = tab.at
    <3>1. SourceOf(l) = "collections" /\ l \in Lists /\ l # "moments"
      BY DEF RecordLists, MomentLists, Lists, SourceOf
    <3>2. rows = RowsOf(tab.of, l, tab.collection)
      BY <2>2, <3>1, GoesOn DEF Reading
    <3>3. rows = {k \in Keys[l][Edition(tab.of, "collections")] : CollectionOf(k) = tab.collection}
      BY <3>1, <3>2 DEF RowsOf
    <3>4. /\ m.of = tab.of /\ m.read = tab.read /\ m.collection = tab.collection
          /\ m.at = l /\ m.cursor = c
      BY <1>5, <1>8, <2>2
    <3>5. m.got[l] = {k \in Keys[l][Edition(m.of, "collections")] :
                        CollectionOf(k) \in m.read
                        /\ (CollectionOf(k) = m.collection => k \in B)}
      BY <1>10, <2>2, <3>4
    <3>6. \A k \in Keys[l][Edition(m.of, "collections")] :
            CollectionOf(k) = m.collection =>
              (k \in B <=> ~(m.at = "items" /\ l = "extra") /\ (m.at = l => k <= m.cursor))
      BY <3>3, <3>4
    <3> HIDE DEF B
    <3> QED
      BY <3>5, <3>6
  <2>3. CASE l # tab.at
    <3>1. l \in Lists
      BY DEF Lists
    <3> QED
      BY <1>5, <1>8, <1>10, <2>1, <2>3, <3>1
  <2> QED
    BY <2>2, <2>3
<1> QED
  BY <1>5, <1>7, <1>9, <1>11, <1>12 DEF Reading

LEMMA AfterListIs ==
  ASSUME tab.at \in Lists, NEW next, next = AfterList
  PROVE  /\ next \in Stages /\ next \notin {"holdings", "owned", "drops", "done", tab.at}
         /\ next \in {"owned", "profiles"} \cup LastStages => tab.at \in {"owned", "items", "extra"}
         /\ next \in LastStages <=> tab.at \in RecordLists
         /\ next \in RecordLists => next = "extra" /\ tab.at = "items"
         /\ next \in RecordLists \/ next = "contents" <=> tab.at \in RecordLists
         /\ tab.at = "items" /\ next # "extra" =>
              next = "contents" /\ ~(CountOf(tab.of, "extra", tab.collection) > 0)
         /\ tab.at \notin Unread(tab.at) /\ Unread(next) = Unread(tab.at) \ {next}
         /\ next \in Plain => next \in Unread(tab.at)
<1>1. CASE tab.at = "holdings"
  <2>1. next = "moments"
    BY <1>1 DEF AfterList
  <2> QED
    BY <1>1, <2>1 DEF Stages, Lists, MomentLists, RecordLists, LastStages, Unread, Plain
<1>2. CASE tab.at = "moments"
  <2>1. next = "tagged"
    BY <1>2 DEF AfterList
  <2> QED
    BY <1>2, <2>1 DEF Stages, Lists, MomentLists, RecordLists, LastStages, Unread, Plain
<1>3. CASE tab.at = "tagged"
  <2>1. next = "capsules"
    BY <1>3 DEF AfterList
  <2> QED
    BY <1>3, <2>1 DEF Stages, Lists, MomentLists, RecordLists, LastStages, Unread, Plain
<1>4. CASE tab.at = "capsules"
  <2>1. next = "memberships"
    BY <1>4 DEF AfterList
  <2> QED
    BY <1>4, <2>1 DEF Stages, Lists, MomentLists, RecordLists, LastStages, Unread, Plain
<1>5. CASE tab.at = "owned"
  <2>1. next = "profiles"
    BY <1>5 DEF AfterList
  <2> QED
    BY <1>5, <2>1 DEF Stages, Lists, MomentLists, RecordLists, LastStages, Unread, Plain
<1>6. CASE tab.at = "items" /\ CountOf(tab.of, "extra", tab.collection) > 0
  <2>1. next = "extra"
    BY <1>6 DEF AfterList
  <2> QED
    BY <1>6, <2>1 DEF Stages, Lists, MomentLists, RecordLists, LastStages, Unread, Plain
<1>7. CASE tab.at = "items" /\ ~(CountOf(tab.of, "extra", tab.collection) > 0)
  <2>1. next = "contents"
    BY <1>7 DEF AfterList
  <2> QED
    BY <1>7, <2>1 DEF Stages, Lists, MomentLists, RecordLists, LastStages, Unread, Plain
<1>8. CASE tab.at = "extra"
  <2>1. next = "contents"
    BY <1>8 DEF AfterList
  <2> QED
    BY <1>8, <2>1 DEF Stages, Lists, MomentLists, RecordLists, LastStages, Unread, Plain
<1> QED
  BY <1>1, <1>2, <1>3, <1>4, <1>5, <1>6, <1>7, <1>8 DEF Lists, MomentLists, RecordLists

LEMMA ListEnds ==
  ASSUME tab \in Tabs, tab.at \in Lists, Reading(tab), NEW w \in 1..MaxVersion, Fits(w),
         NEW rows, rows = RowsOf(w, tab.at, tab.collection),
         NEW page, page = PageOf(rows, tab.cursor), LastPage(rows, tab.cursor),
         PagesWell(rows, tab.cursor), rows \in SUBSET (Nat \ {0}),
         NEW n, Grown(n, w, page, DropsOf(page)), DetailsRead(n),
         tab.at = "moments" => Same(n.first, n.of, {"moments"}),
         NEW next, next = AfterList,
         NEW u, Turned(n, u, next)
  PROVE  Reading(u) /\ Own(n, tab.at) = RowsOf(tab.of, tab.at, tab.collection)
<1>1. tab.cursor \in Nat
  BY DEF Tabs
<1>2. rows = {k \in rows : k <= tab.cursor} \cup page
  <2>1. page = {k \in rows : k > tab.cursor}
    BY DEF PagesWell
  <2>2. \A k \in rows : k <= tab.cursor \/ k > tab.cursor
    BY <1>1
  <2> QED
    BY <2>1, <2>2
<1>3. page \subseteq rows
  BY <1>2
<1>4. /\ tab.at \in Plain => n.got[tab.at] = rows
      /\ tab.at \in RecordLists =>
              n.got[tab.at] = {k \in Keys[tab.at][Edition(tab.of, "collections")] :
                                 CollectionOf(k) \in tab.read
                                 /\ (CollectionOf(k) = tab.collection => k \in rows)}
      /\ Own(n, tab.at) = rows
  BY <1>2, <1>3, RowsGrow
<1>5. \A l \in Lists : l # tab.at => n.got[l] = tab.got[l]
  BY HeldGrow
<1>6. /\ n.at = tab.at /\ n.of = tab.of /\ n.read = tab.read /\ n.collection = tab.collection
      /\ n.first = IF tab.at = "moments" /\ tab.first = 0 THEN w ELSE tab.first
  BY DEF Grown
<1>7. /\ u.at = next /\ u.cursor = 0 /\ u.seen = {} /\ u.of = n.of /\ u.first = n.first
      /\ u.collection = n.collection /\ u.got = n.got /\ u.read = n.read
  BY DEF Turned
<1>8. ReferencesRead(n)
  BY ReferencesGrow DEF Reading
<1>9. rows = RowsOf(tab.of, tab.at, tab.collection)
  <2>1. CASE tab.at # "moments"
    BY <2>1, GoesOn DEF Reading
  <2>2. CASE tab.at = "moments"
    <3>1. tab.at \in Plain
      BY <2>2 DEF Plain, Lists, MomentLists, RecordLists
    <3>2. rows = RowsOf(n.first, tab.at, 0)
      BY <1>6, <2>2, <3>1, SourceHas DEF Source
    <3>3. Same(n.first, tab.of, {SourceOf(tab.at)})
      BY <1>6, <2>2 DEF SourceOf, MomentLists
    <3>4. rows = RowsOf(tab.of, tab.at, 0)
      BY <3>2, <3>3, SameIsSame
    <3> QED
      BY <2>2, <3>4 DEF RowsOf, RecordLists
  <2> QED
    BY <2>1, <2>2
<1>10. DetailsRead(u)
  BY AfterListIs, TurnedDetails
<1>11. ReferencesRead(u)
  <2>1. /\ next \in {"owned", "profiles"} \cup LastStages => n.asked = HeldDrops(n)
        /\ next \in LastStages => n.profiles = Needed(n)
        /\ next \notin LastStages => n.read = {}
        /\ next \notin {"drops", "done"}
        /\ next \in RecordLists => n.collection \in n.read
    <3>1. /\ next \in {"owned", "profiles"} \cup LastStages =>
                n.at \in {"owned", "items", "extra"}
          /\ next \in LastStages <=> n.at \in {"items", "extra"}
          /\ next \in RecordLists => n.at = "items"
          /\ next \notin {"drops", "done"}
      BY <1>6, AfterListIs DEF RecordLists
    <3>2. n.at \in Lists
      BY <1>6
    <3>3. n.at \in {"items", "extra"} <=> n.at \in LastStages
      BY <3>2 DEF LastStages, Lists, MomentLists, RecordLists
    <3>4. n.at = "items" => n.collection \in n.read
      BY <1>8 DEF ReferencesRead, RecordLists
    <3>5. /\ n.at \in {"owned", "profiles"} \cup LastStages => n.asked = HeldDrops(n)
          /\ n.at \in LastStages => n.profiles = Needed(n)
          /\ n.at \notin LastStages => n.read = {}
      BY <1>8 DEF ReferencesRead
    <3>6. n.at \in {"owned", "items", "extra"} => n.at \in {"owned", "profiles"} \cup LastStages
      BY <3>3
    <3> QED
      BY <3>1, <3>3, <3>4, <3>5, <3>6
  <2> QED
    BY <1>8, <2>1, TurnedReferences
<1>12. CursorRight(u)
  BY <1>7 DEF CursorRight
<1>13. PlainRead(u)
  <2> SUFFICES ASSUME NEW l \in Plain
               PROVE  /\ l = u.at => u.got[l] = {k \in RowsOf(Source(u), l, 0) : k <= u.cursor}
                      /\ l \in Unread(u.at) => u.got[l] = {}
                      /\ l # u.at /\ l \notin Unread(u.at) => u.got[l] = RowsOf(u.of, l, 0)
    BY DEF PlainRead
  <2>1. l \in Lists /\ l \notin RecordLists
    BY DEF Plain
  <2>2. /\ l \in Unread(tab.at) => tab.got[l] = {}
        /\ l # tab.at /\ l \notin Unread(tab.at) => tab.got[l] = RowsOf(tab.of, l, 0)
    BY DEF Reading, PlainRead
  <2>3. CASE l = next
    <3>1. l \in Unread(tab.at) /\ l # tab.at /\ l \notin Unread(next)
      BY <2>3, AfterListIs
    <3>2. u.got[l] = {}
      BY <1>5, <1>7, <2>1, <2>2, <3>1
    <3>3. {k \in RowsOf(Source(u), l, 0) : k <= 0} = {}
      <4>1. RowsOf(Source(u), l, 0) \in SUBSET (Nat \ {0})
        BY <2>1, RowsAreNumbers
      <4> QED
        BY <4>1
    <3> QED
      BY <1>7, <2>3, <3>1, <3>2, <3>3
  <2>4. CASE l = tab.at
    <3>1. l # next /\ l \notin Unread(next)
      BY <2>4, AfterListIs
    <3>2. u.got[l] = RowsOf(tab.of, l, 0)
      BY <1>4, <1>7, <1>9, <2>1, <2>4 DEF RowsOf
    <3> QED
      BY <1>6, <1>7, <3>1, <3>2
  <2>5. CASE l # next /\ l # tab.at
    <3>1. l \in Unread(next) <=> l \in Unread(tab.at)
      BY <2>5, AfterListIs
    <3> QED
      BY <1>5, <1>6, <1>7, <2>1, <2>2, <2>5, <3>1
  <2> QED
    BY <2>3, <2>4, <2>5
<1>14. RecordsRead(u)
  <2> SUFFICES ASSUME NEW l \in RecordLists
               PROVE  u.got[l] = {k \in Keys[l][Edition(u.of, "collections")] :
                  /\ CollectionOf(k) \in u.read
                  /\ CollectionOf(k) = u.collection =>
                       ~(u.at = "items" /\ l = "extra") /\ (u.at = l => k <= u.cursor)}
    BY DEF RecordsRead
  <2>1. tab.got[l] = {k \in Keys[l][Edition(tab.of, "collections")] :
                  /\ CollectionOf(k) \in tab.read
                  /\ CollectionOf(k) = tab.collection =>
                       ~(tab.at = "items" /\ l = "extra") /\ (tab.at = l => k <= tab.cursor)}
    BY DEF Reading, RecordsRead
  <2>2. l \in Lists /\ SourceOf(l) = "collections"
    BY DEF Lists, SourceOf, RecordLists, MomentLists
  <2>3. CASE tab.at \notin RecordLists
    <3>1. tab.read = {} /\ l # tab.at
      <4>1. tab.at \notin LastStages
        BY <2>3 DEF LastStages, Lists, MomentLists, RecordLists
      <4> QED
        BY <2>3, <4>1 DEF Reading, ReferencesRead
    <3>2. tab.got[l] = {}
      BY <2>1, <3>1
    <3> QED
      BY <1>5, <1>6, <1>7, <2>2, <3>1, <3>2
  <2>4. CASE tab.at \in RecordLists /\ l = tab.at
    <3>1. rows = {k \in Keys[l][Edition(tab.of, "collections")] : CollectionOf(k) = tab.collection}
      BY <1>9, <2>2, <2>4 DEF RowsOf
    <3>2. u.got[l] = {k \in Keys[l][Edition(tab.of, "collections")] : CollectionOf(k) \in tab.read}
      BY <1>4, <1>7, <2>4, <3>1
    <3>3. next # l /\ next # "items"
      BY <2>4, AfterListIs DEF RecordLists
    <3> QED
      BY <1>6, <1>7, <3>2, <3>3
  <2>5. CASE tab.at = "extra" /\ l = "items"
    <3>1. u.got[l] = {k \in Keys[l][Edition(tab.of, "collections")] : CollectionOf(k) \in tab.read}
      BY <1>5, <1>7, <2>1, <2>2, <2>5
    <3>2. next \notin {"items", "extra"}
      BY <2>5, AfterListIs DEF RecordLists
    <3> QED
      BY <1>6, <1>7, <2>5, <3>1, <3>2
  <2>6. CASE tab.at = "items" /\ l = "extra"
    <3>1. u.got[l] = {k \in Keys[l][Edition(tab.of, "collections")] :
                        CollectionOf(k) \in tab.read /\ CollectionOf(k) # tab.collection}
      BY <1>5, <1>7, <2>1, <2>2, <2>6
    <3>2. CASE next = "extra"
      <4>1. \A k \in Keys[l][Edition(tab.of, "collections")] : ~(k <= 0)
        <5>1. Keys[l][Edition(tab.of, SourceOf(l))] \in SUBSET (Nat \ {0})
          BY <2>2, RowsAreNumbers
        <5> QED
          BY <2>2, <5>1
      <4> QED
        BY <1>6, <1>7, <2>6, <3>1, <3>2, <4>1
    <3>3. CASE next # "extra"
      <4>1. next = "contents" /\ ~(CountOf(tab.of, "extra", tab.collection) > 0)
        BY <2>6, <3>3, AfterListIs
      <4>2. RowsOf(tab.of, "extra", tab.collection) = {}
        <5> DEFINE R == RowsOf(tab.of, "extra", tab.collection)
        <5>1. IsFiniteSet(R) /\ ~(Cardinality(R) > 0)
          BY <2>2, <2>6, <4>1, RowsAreNumbers DEF CountOf
        <5> HIDE DEF R
        <5>2. R = {}
          BY <5>1, FS_CardinalityType, FS_EmptySet
        <5> QED
          BY <5>2 DEF R
      <4>3. \A k \in Keys[l][Edition(tab.of, "collections")] : CollectionOf(k) # tab.collection
        BY <2>2, <2>6, <4>2 DEF RowsOf
      <4> QED
        BY <1>6, <1>7, <2>6, <3>1, <4>1, <4>3
    <3> QED
      BY <3>2, <3>3
  <2> QED
    BY <2>3, <2>4, <2>5, <2>6 DEF RecordLists
<1> QED
  BY <1>4, <1>9, <1>10, <1>11, <1>12, <1>13, <1>14 DEF Reading

LEMMA EditionStays ==
  ASSUME UNCHANGED changed, NEW u, tab' = u
  PROVE  /\ PlainRead(u) => PlainRead(tab)'
         /\ RecordsRead(u) => RecordsRead(tab)'
         /\ CursorRight(u) => CursorRight(tab)'
         /\ ReferencesRead(u) => ReferencesRead(tab)'
         /\ DetailsRead(u) => DetailsRead(tab)'
<1>1. PlainRead(u) => PlainRead(tab)'
  BY DEF PlainRead, RowsOf, Source, Edition
<1>2. RecordsRead(u) => RecordsRead(tab)'
  BY DEF RecordsRead, Edition
<1>3. CursorRight(u) => CursorRight(tab)'
  BY DEF CursorRight
<1>4. ReferencesRead(u) => ReferencesRead(tab)'
  BY DEF ReferencesRead, MembershipsOf, Edition
<1>5. DetailsRead(u) => DetailsRead(tab)'
  BY DEF DetailsRead, Public, Cards, Edition
<1> QED
  BY <1>1, <1>2, <1>3, <1>4, <1>5

LEMMA ReadingStays ==
  ASSUME UNCHANGED changed, NEW u, tab' = u, Reading(u)
  PROVE  Reading(tab)'
<1>1. /\ PlainRead(u) /\ RecordsRead(u) /\ CursorRight(u) /\ ReferencesRead(u) /\ DetailsRead(u)
  BY DEF Reading
<1>2. /\ PlainRead(tab)' /\ RecordsRead(tab)' /\ CursorRight(tab)' /\ ReferencesRead(tab)'
      /\ DetailsRead(tab)'
  BY <1>1, EditionStays
<1> QED
  BY <1>2 DEF Reading

LEMMA UndisturbedStays ==
  ASSUME UNCHANGED <<changed, serving>>, NEW u, tab' = u, Undisturbed(u)
  PROVE  Undisturbed(tab)'
BY DEF Undisturbed, Same, Detail, Edition

LEMMA SourcesAre ==
  /\ \A at : KeySources(at) \subseteq Sources
  /\ KeySources("manifest") = Sources
  /\ "moments" \in Sources /\ \A l \in Lists : SourceOf(l) \in Sources
  /\ KeySources("holdings") = {"holdings", "media", "catalog", "collections"}
  /\ \A at \in MomentLists : KeySources(at) = {"moments"}
  /\ KeySources("drops") = {"catalog"}
  /\ \A at \in Stages \ ({"holdings", "drops"} \cup MomentLists) : KeySources(at) = {"collections"}
BY DEF KeySources, Sources, Lists, SourceOf, MomentLists, RecordLists, Stages

\* While one version answers, what it answers is what the manifest names.
Matches(w) ==
  /\ Same(w, tab.of, KeySources(tab.at))
  /\ tab.at = "moments" => (tab.first # 0 => Same(w, tab.first, {"moments"}))

LEMMA AnswersMatch ==
  ASSUME tab \in Tabs, Undisturbed(tab), NEW w, Answers(w)
  PROVE  Matches(w)
<1>1. PICK v \in serving : Same(v, w, KeySources(tab.at))
  BY DEF Answers
<1>2. /\ Same(v, tab.of, Sources)
      /\ tab.first # 0 => Same(v, tab.first, {"moments"})
  BY DEF Undisturbed
<1>3. Same(w, tab.of, KeySources(tab.at))
  BY <1>1, <1>2, SourcesAre DEF Same
<1>4. tab.at = "moments" /\ tab.first # 0 => Same(w, tab.first, {"moments"})
  <2>1. tab.at = "moments" => KeySources(tab.at) = {"moments"}
    BY SourcesAre DEF MomentLists
  <2> QED
    BY <1>1, <1>2, <2>1 DEF Same
<1> QED
  BY <1>3, <1>4 DEF Matches

LEMMA NoneForeign ==
  ASSUME tab \in Tabs, CursorRight(tab), Undisturbed(tab), NEW v \in serving
  PROVE  ~Foreign(v)
<1>1. CASE tab.cursor = 0
  BY <1>1 DEF Foreign
<1>2. CASE tab.cursor # 0 /\ tab.at = "moments"
  <2>1. tab.first # 0
    BY <1>2 DEF CursorRight
  <2>2. Same(v, tab.first, {SourceOf(tab.at)})
    BY <1>2, <2>1 DEF Undisturbed, SourceOf, MomentLists
  <2> QED
    BY <1>2, <2>2 DEF Foreign, Giver
<1>3. CASE tab.cursor # 0 /\ tab.at # "moments"
  <2>1. Same(v, tab.of, {SourceOf(tab.at)})
    <3>1. SourceOf(tab.at) \in Sources
      BY DEF SourceOf, Sources
    <3> QED
      BY <3>1 DEF Undisturbed, Same
  <2> QED
    BY <1>3, <2>1 DEF Foreign, Giver
<1> QED
  BY <1>1, <1>2, <1>3

LEMMA MatchFits ==
  ASSUME tab \in Tabs, NEW w, Matches(w),
         ~split, "catalog" \in changed <=> "holdings" \in changed, tab.at # "done"
  PROVE  Fits(w)
<1>0. /\ tab.at \in Stages /\ Same(w, tab.of, KeySources(tab.at))
      /\ tab.at = "moments" => (tab.first # 0 => Same(w, tab.first, {"moments"}))
  BY DEF Tabs, Matches
<1>1. CASE tab.at = "holdings"
  BY <1>0, <1>1, SourcesAre DEF Fits, Same
<1>2. CASE tab.at = "moments"
  BY <1>0, <1>2 DEF Fits
<1>3. CASE tab.at = "drops"
  <2>1. Edition(w, "catalog") = Edition(tab.of, "catalog")
    BY <1>0, <1>3, SourcesAre DEF Same
  <2>2. Edition(tab.of, "catalog") = Edition(tab.of, "holdings")
    BY DEF Edition
  <2>3. SnapshotId(w, "catalog") = SnapshotId(tab.of, "holdings")
    BY <2>1, <2>2 DEF SnapshotId
  <2> QED
    BY <1>3, <2>3 DEF Fits
<1>4. CASE tab.at \in {"tagged", "capsules"}
  BY <1>0, <1>4, SourcesAre DEF Fits, MomentLists
<1>5. CASE tab.at \in {"memberships", "owned", "profiles", "contents", "items", "extra"}
  <2>1. tab.at \in Stages \ ({"holdings", "drops"} \cup MomentLists)
    BY <1>0, <1>5 DEF MomentLists
  <2> QED
    BY <1>0, <1>5, <2>1, SourcesAre DEF Fits
<1> QED
  BY <1>0, <1>1, <1>2, <1>3, <1>4, <1>5 DEF Stages, Lists, MomentLists, RecordLists

LEMMA NoContradiction ==
  ASSUME tab \in Tabs, tab.at = "holdings", Undisturbed(tab), NEW w, Answers(w), NEW page
  PROVE  /\ \A d : Detail(w, d) = Detail(tab.of, d)
         /\ ~Contradicted(w, page)
<1>1. \A s \in {"holdings", "media", "catalog", "collections"} : Edition(w, s) = Edition(tab.of, s)
  <2>1. Same(w, tab.of, KeySources("holdings"))
    BY AnswersMatch DEF Matches
  <2> QED
    BY <2>1, SourcesAre DEF Same
<1>2. \A d : Detail(w, d) = Detail(tab.of, d)
  BY <1>1 DEF Detail
<1>3. /\ \A p \in tab.known : p[2] = Detail(tab.of, p[1])
      /\ \A d \in tab.gone : Detail(tab.of, d) = "none"
  <2>1. serving # {}
    BY DEF Answers
  <2> QED
    BY <2>1 DEF Undisturbed
<1>4. ~Contradicted(w, page)
  BY <1>2, <1>3 DEF Contradicted
<1> QED
  BY <1>2, <1>4

\* A page has no row of another one, and moves the cursor on.
LEMMA PagesAreNew ==
  ASSUME tab \in Tabs, tab.at \in Lists, Reading(tab), NEW w, Fits(w),
         NEW rows, rows = RowsOf(w, tab.at, tab.collection),
         PagesWell(rows, tab.cursor), rows \in SUBSET Nat
  PROVE  /\ PageOf(rows, tab.cursor) \cap tab.got[tab.at] = {}
         /\ ~LastPage(rows, tab.cursor) => Max(PageOf(rows, tab.cursor)) \notin tab.seen
<1> DEFINE page == PageOf(rows, tab.cursor)
<1>1. /\ page \subseteq rows /\ \A k \in page : k > tab.cursor
      /\ ~LastPage(rows, tab.cursor) => Max(page) \in page
  BY DEF PagesWell
<1>2. Own(tab, tab.at) = {k \in rows : k <= tab.cursor}
  BY GoesOn DEF Reading
<1>3. tab.cursor \in Nat
  BY DEF Tabs
<1>4. \A k \in page : k \notin Own(tab, tab.at)
  BY <1>1, <1>2, <1>3
<1>5. \A k \in page : k \in tab.got[tab.at] => k \in Own(tab, tab.at)
  BY <1>1 DEF Own, RowsOf
<1>6. \A k \in page : k \notin tab.seen
  <2>1. \A s \in tab.seen : s <= tab.cursor /\ s \in Nat
    BY DEF Reading, CursorRight, Tabs
  <2> QED
    BY <1>1, <1>3, <2>1
<1> QED
  BY <1>1, <1>4, <1>5, <1>6

Rest == UNCHANGED <<changed, split, serving, newest>>

LEMMA TabIs ==
  ASSUME ExportInv
  PROVE  /\ tab \in Firsts => tab.at = "manifest" /\ Running /\ tab.cursor = 0 /\ tab.moved \in BOOLEAN
         /\ tab \in NoTabs => ~Running
         /\ tab \in Tabs => tab.at \in Stages /\ tab.at # "manifest" /\ Reading(tab)
                            /\ tab.moved \in BOOLEAN /\ (Running <=> tab.at # "done")
                            /\ tab.of \in 1..newest
         /\ Running => tab \in Firsts \cup Tabs
         /\ tab.at \in Stages => tab \in Tabs
         /\ newest \in Nat /\ MaxVersion \in Nat
<1>1. newest \in 1..MaxVersion /\ newest \in Nat /\ MaxVersion \in Nat
  BY ExportAssumption DEF ExportInv
<1>2. tab \in Firsts => tab.at = "manifest" /\ Running /\ tab.cursor = 0 /\ tab.moved \in BOOLEAN
  BY DEF Firsts, Running
<1>3. tab \in NoTabs => tab.at \in {"idle", "stopped"}
  BY DEF NoTabs, NoExport
<1>4. tab \in NoTabs => ~Running
  BY <1>3 DEF Running
<1>5. tab \in NoTabs \cup Firsts \/ tab \in Tabs
  BY DEF ExportInv
<1>6. ASSUME tab \in Tabs
      PROVE  tab.at \in Stages /\ tab.at \notin {"idle", "stopped", "manifest"} /\ tab.moved \in BOOLEAN
             /\ tab.of \in 1..MaxVersion
  BY <1>6 DEF Tabs, Stages, Lists, MomentLists, RecordLists
<1>7. ASSUME tab \in Tabs PROVE Reading(tab) /\ tab.of <= newest
  <2>1. tab \notin NoTabs \cup Firsts
    BY <1>2, <1>3, <1>6, <1>7
  <2> QED
    BY <2>1 DEF ExportInv
<1>8. tab.at \in Stages => tab.at \notin {"idle", "stopped", "manifest"}
  BY DEF Stages, Lists, MomentLists, RecordLists
<1>9. tab \in Tabs => tab.of \in 1..newest
  BY <1>1, <1>6, <1>7
<1>10. tab \in Tabs => (Running <=> tab.at # "done")
  BY <1>6 DEF Running
<1> QED
  BY <1>1, <1>2, <1>3, <1>4, <1>5, <1>6, <1>7, <1>8, <1>9, <1>10

LEMMA ItStops ==
  ASSUME ExportInv, Running,
         NEW why \in {"broken", "changed", "refused", "busy", "cancelled", "unavailable"},
         tab' = Stopped(why), Rest,
         why \in {"broken", "changed", "refused"} /\ ~split => tab.moved
  PROVE  ExportInv'
<1>1. tab.moved \in BOOLEAN
  BY TabIs
<1>2. /\ tab' = [at |-> "stopped", why |-> why, moved |-> tab.moved]
      /\ changed' = changed /\ split' = split /\ serving' = serving /\ newest' = newest
  BY DEF Stopped, Rest
<1>3. /\ tab'.at = "stopped" /\ tab'.why = why /\ tab'.moved = tab.moved /\ tab' \in NoTabs
  BY <1>1, <1>2 DEF NoTabs
<1>4. ~Running'
  BY <1>3 DEF Running
<1>5. (~split => StopsOnlyForChange)'
  BY <1>2, <1>3 DEF StopsOnlyForChange
<1>6. /\ newest' \in 1..MaxVersion /\ serving' \in SUBSET (1..newest')
      /\ ~split' => ("catalog" \in changed' <=> "holdings" \in changed')
  BY <1>2 DEF ExportInv
<1>7. (tab \in NoTabs \cup Firsts)'
  BY <1>3 DEF NoTabs, NoExport
<1> QED
  BY <1>4, <1>5, <1>6, <1>7 DEF ExportInv

LEMMA ItGoesOn ==
  ASSUME ExportInv, tab \in Tabs, tab.at # "done", Rest,
         NEW u \in Tabs, tab' = u, u.of = tab.of, u.moved = tab.moved, Reading(u),
         OneVersion /\ Undisturbed(tab) => Undisturbed(u)
  PROVE  ExportInv'
<1>1. /\ changed' = changed /\ split' = split /\ serving' = serving /\ newest' = newest
  BY DEF Rest
<1>2. Running /\ tab.at # "manifest"
  BY TabIs
<1>3. /\ newest' \in 1..MaxVersion /\ serving' \in SUBSET (1..newest')
      /\ ~split' => ("catalog" \in changed' <=> "holdings" \in changed')
  BY <1>1 DEF ExportInv
<1>4. Reading(tab)'
  BY <1>1, ReadingStays
<1>5. tab' \in Tabs /\ tab'.of <= newest'
  BY <1>1, TabIs
<1>6. (tab \in Tabs)'
  BY <1>5 DEF Tabs
<1>7. ASSUME Running', ~tab'.moved PROVE (OneVersion /\ (tab.at # "manifest" => Undisturbed(tab)))'
  <2>1. OneVersion /\ Undisturbed(tab)
    BY <1>2, <1>7 DEF ExportInv
  <2>2. Undisturbed(u)
    BY <2>1
  <2>3. Undisturbed(tab)'
    BY <1>1, <2>2, UndisturbedStays
  <2>4. OneVersion'
    BY <1>1, <2>1 DEF OneVersion
  <2> QED
    BY <2>3, <2>4
<1>8. StopsOnlyForChange'
  <2>1. tab'.at # "stopped"
    BY <1>5 DEF Tabs, Stages, Lists, MomentLists, RecordLists
  <2> QED
    BY <2>1 DEF StopsOnlyForChange
<1> QED
  BY <1>3, <1>4, <1>5, <1>6, <1>7, <1>8 DEF ExportInv

LEMMA ManifestStep ==
  ASSUME ExportInv, NEW w \in 1..newest, ReadManifest(w)
  PROVE  ExportInv'
<1> DEFINE u == [at |-> "holdings", of |-> w, first |-> 0, moved |-> tab.moved,
             cursor |-> 0, seen |-> {}, busy |-> 0, collection |-> 0,
             got |-> [l \in Lists |-> {}], known |-> {}, gone |-> {},
             asked |-> {}, members |-> {}, profiles |-> {}, read |-> {}]
<1>1. /\ tab' = u /\ tab.at = "manifest" /\ Answers(w)
      /\ changed' = changed /\ split' = split /\ serving' = serving /\ newest' = newest
  BY DEF ReadManifest
<1>2. tab \in Firsts /\ Running /\ tab.moved \in BOOLEAN /\ newest \in Nat /\ MaxVersion \in Nat
  <2>1. Running
    BY <1>1 DEF Running
  <2> QED
    BY <1>1, <2>1, TabIs
<1>3. w \in 1..MaxVersion
  BY <1>2 DEF ExportInv
<1>4. u \in Tabs
  BY <1>2, <1>3 DEF Tabs, Stages, Lists, MomentLists, RecordLists
<1>5. /\ u.at = "holdings" /\ u.of = w /\ u.first = 0 /\ u.cursor = 0 /\ u.seen = {} /\ u.collection = 0
      /\ u.moved = tab.moved /\ u.known = {} /\ u.gone = {} /\ u.asked = {} /\ u.members = {}
      /\ u.profiles = {} /\ u.read = {}
      /\ \A l \in Lists : u.got[l] = {}
  OBVIOUS
<1> HIDE DEF u
<1>6. HeldDrops(u) = {} /\ Referenced(u) = {} /\ Needed(u) = {} /\ Known(u) = {}
  <2>1. /\ u.got["holdings"] = {} /\ u.got["owned"] = {} /\ u.got["moments"] = {}
        /\ u.got["tagged"] = {} /\ u.got["items"] = {} /\ u.got["extra"] = {}
    BY <1>5 DEF Lists, MomentLists, RecordLists
  <2> QED
    BY <1>5, <2>1 DEF HeldDrops, Referenced, Needed, Known, TheirMoments
<1>7. Reading(u)
  <2>1. PlainRead(u)
    <3> SUFFICES ASSUME NEW l \in Plain
                 PROVE  /\ l = u.at => u.got[l] = {k \in RowsOf(Source(u), l, 0) : k <= u.cursor}
                        /\ l \in Unread(u.at) => u.got[l] = {}
                        /\ l # u.at /\ l \notin Unread(u.at) => u.got[l] = RowsOf(u.of, l, 0)
      BY DEF PlainRead
    <3>1. l \in Lists /\ u.got[l] = {}
      BY <1>5 DEF Plain
    <3>2. RowsOf(Source(u), l, 0) \in SUBSET (Nat \ {0})
      BY <3>1, RowsAreNumbers
    <3>3. {k \in RowsOf(Source(u), l, 0) : k <= 0} = {}
      BY <3>2
    <3>4. l = "holdings" \/ l \in Unread("holdings")
      BY DEF Unread, Plain, Lists, MomentLists, RecordLists
    <3> QED
      BY <1>5, <3>1, <3>3, <3>4
  <2>2. RecordsRead(u)
    BY <1>5 DEF RecordsRead, RecordLists, Lists
  <2>3. CursorRight(u)
    BY <1>5 DEF CursorRight
  <2>4. ReferencesRead(u)
    BY <1>5, <1>6 DEF ReferencesRead, MembershipsOf, LastStages, RecordLists
  <2>5. DetailsRead(u)
    BY <1>5, <1>6, FS_EmptySet DEF DetailsRead
  <2> QED
    BY <2>1, <2>2, <2>3, <2>4, <2>5 DEF Reading
<1>8. Reading(tab)'
  BY <1>1, <1>7, ReadingStays DEF u
<1>9. ASSUME Running', ~tab'.moved PROVE (OneVersion /\ (tab.at # "manifest" => Undisturbed(tab)))'
  <2>1. OneVersion
    <3>1. ~tab.moved
      BY <1>1, <1>5, <1>9
    <3> QED
      BY <1>2, <3>1 DEF ExportInv
  <2>2. PICK v \in serving : Same(v, w, KeySources("manifest"))
    BY <1>1 DEF Answers
  <2>3. \A x \in serving : Same(x, w, Sources)
    <3>1. KeySources("manifest") = Sources
      BY SourcesAre
    <3>2. \A x \in serving : x = v
      BY <2>1, <2>2 DEF OneVersion
    <3> QED
      BY <2>2, <3>1, <3>2
  <2>4. Undisturbed(u)
    BY <1>5, <2>3 DEF Undisturbed
  <2>5. Undisturbed(tab)'
    BY <1>1, <2>4, UndisturbedStays DEF u
  <2>6. OneVersion'
    BY <1>1, <2>1 DEF OneVersion
  <2> QED
    BY <2>5, <2>6
<1>10. /\ newest' \in 1..MaxVersion /\ serving' \in SUBSET (1..newest')
       /\ ~split' => ("catalog" \in changed' <=> "holdings" \in changed')
  BY <1>1 DEF ExportInv
<1>11. (tab \in Tabs)' /\ tab'.of <= newest' /\ tab'.at # "stopped"
  BY <1>1, <1>2, <1>4, <1>5 DEF Tabs
<1>12. StopsOnlyForChange'
  BY <1>11 DEF StopsOnlyForChange
<1> QED
  BY <1>8, <1>9, <1>10, <1>11, <1>12 DEF ExportInv

LEMMA ListUndisturbed ==
  ASSUME tab \in Tabs, tab.at \in Lists, Undisturbed(tab), OneVersion, NEW w, Answers(w),
         NEW page, NEW n, Grown(n, w, page, DropsOf(page)),
         NEW u, u.of = tab.of, u.first = n.first, u.known = n.known, u.gone = n.gone,
         u.at = "holdings" => tab.at = "holdings"
  PROVE  Undisturbed(u)
<1>1. /\ n.first = IF tab.at = "moments" /\ tab.first = 0 THEN w ELSE tab.first
      /\ n.known = tab.known \cup Described(w, DropsOf(page))
      /\ n.gone = tab.gone \cup {d \in DropsOf(page) : Detail(w, d) = "none"}
  BY DEF Grown, Described
<1>2. ASSUME NEW v \in serving
      PROVE  Same(v, tab.of, Sources) /\ (n.first # 0 => Same(v, n.first, {"moments"}))
  <2>1. Same(v, tab.of, Sources) /\ (tab.first # 0 => Same(v, tab.first, {"moments"}))
    BY DEF Undisturbed
  <2>2. tab.at = "moments" => Same(w, tab.of, {"moments"})
    BY AnswersMatch, SourcesAre DEF Matches, MomentLists
  <2>3. tab.at = "moments" => Same(v, w, {"moments"})
    BY <2>1, <2>2, SourcesAre DEF Same
  <2> QED
    BY <1>1, <2>1, <2>3
<1>3. ASSUME u.at = "holdings"
      PROVE  /\ \A p \in n.known : p[2] = Detail(tab.of, p[1])
             /\ \A d \in n.gone : Detail(tab.of, d) = "none"
  <2>1. \A d : Detail(w, d) = Detail(tab.of, d)
    BY <1>3, NoContradiction
  <2>2. serving # {}
    BY DEF Answers
  <2>3. /\ \A p \in tab.known : p[2] = Detail(tab.of, p[1])
        /\ \A d \in tab.gone : Detail(tab.of, d) = "none"
    BY <1>3, <2>2 DEF Undisturbed
  <2>4. \A p \in Described(w, DropsOf(page)) : p[2] = Detail(w, p[1])
    BY DEF Described
  <2> QED
    BY <1>1, <2>1, <2>3, <2>4
<1> QED
  BY <1>2, <1>3 DEF Undisturbed

\* A tab that saw no roll-out cannot have stopped here.
LEMMA MustHaveMoved ==
  ASSUME ExportInv, tab \in Tabs, Running, OneVersion /\ Undisturbed(tab) => FALSE
  PROVE  tab.moved
BY TabIs DEF ExportInv

LEMMA ListStep ==
  ASSUME ExportInv, NEW w \in 1..newest, ReadListPage(w)
  PROVE  ExportInv'
<1> DEFINE rows == RowsOf(w, tab.at, tab.collection)
           page == PageOf(rows, tab.cursor)
           n == With(w, page)
           next == AfterList
           broken == \/ page \cap tab.got[tab.at] # {}
                     \/ tab.at = "holdings" /\ Contradicted(w, page)
                     \/ ~LastPage(rows, tab.cursor) /\ Max(page) \in tab.seen
<1>1. /\ tab.at \in Lists /\ Answers(w) /\ Fits(w) /\ Rest
      /\ tab' = IF broken THEN Stopped("broken")
                ELSE IF LastPage(rows, tab.cursor) THEN Complete(n)
                ELSE [n EXCEPT !.cursor = Max(page), !.seen = n.seen \cup {Max(page)}, !.busy = 0]
  BY DEF ReadListPage, Rest
<1>2. tab \in Tabs /\ Reading(tab) /\ tab.at # "done" /\ Running /\ tab.of \in 1..newest
  <2>1. tab.at \in Stages /\ tab.at # "done"
    BY <1>1 DEF Stages, Lists, MomentLists, RecordLists
  <2> QED
    BY <2>1, TabIs
<1>3. w \in 1..MaxVersion
  <2>1. newest \in 1..MaxVersion /\ MaxVersion \in Nat /\ newest \in Nat
    BY TabIs DEF ExportInv
  <2> QED
    BY <2>1
<1>4. rows \in SUBSET (Nat \ {0}) /\ IsFiniteSet(rows) /\ rows \in SUBSET Nat /\ tab.cursor \in Nat
  <2>1. rows \in SUBSET (Nat \ {0}) /\ IsFiniteSet(rows)
    BY <1>1, RowsAreNumbers
  <2>2. tab.cursor \in Nat
    BY <1>2 DEF Tabs
  <2> QED
    BY <2>1, <2>2
<1> HIDE DEF rows
<1>5. PagesWell(rows, tab.cursor)
  BY <1>4, PageWell
<1>6. page \in SUBSET (Nat \ {0}) /\ IsFiniteSet(page)
  BY <1>4, <1>5 DEF PagesWell
<1> HIDE DEF page
<1>7. Grown(n, w, page, DropsOf(page))
  BY <1>1, <1>2, <1>3, <1>6, PageGrows
<1> HIDE DEF n
<1>8. n \in Tabs /\ n.of = tab.of /\ n.moved = tab.moved /\ n.at = tab.at /\ n.collection = tab.collection
  BY <1>7 DEF Grown
<1>9. CASE broken
  <2>1. /\ page \cap tab.got[tab.at] = {}
        /\ ~LastPage(rows, tab.cursor) => Max(page) \notin tab.seen
    BY <1>1, <1>2, <1>4, <1>5, PagesAreNew DEF page, rows
  <2>2. tab.at = "holdings" /\ Contradicted(w, page)
    BY <1>9, <2>1
  <2>3. OneVersion /\ Undisturbed(tab) => FALSE
    BY <1>1, <1>2, <2>2, NoContradiction
  <2>4. tab.moved
    BY <1>2, <2>3, MustHaveMoved
  <2> QED
    BY <1>1, <1>2, <1>9, <2>4, ItStops
<1>10. CASE ~broken
  <2>1. tab.at = "holdings" => ~Contradicted(w, page)
    BY <1>10
  <2>2. DetailsRead(n)
    <3>1. DetailsRead(tab)
      BY <1>2 DEF Reading
    <3> QED
      BY <1>1, <1>2, <1>6, <1>7, <2>1, <3>1, DetailsGrow
  <2>3. CASE ~LastPage(rows, tab.cursor)
    <3> DEFINE m == [n EXCEPT !.cursor = Max(page), !.seen = n.seen \cup {Max(page)}, !.busy = 0]
    <3>1. tab' = m
      BY <1>1, <1>10, <2>3
    <3>2. m \in Tabs /\ Reading(m)
      BY <1>1, <1>2, <1>3, <1>4, <1>5, <1>7, <2>2, <2>3, NextPage DEF rows, page
    <3>3. /\ m.of = n.of /\ m.moved = n.moved /\ m.at = n.at /\ m.first = n.first
          /\ m.known = n.known /\ m.gone = n.gone
      BY <1>8 DEF Tabs
    <3> HIDE DEF m
    <3>4. OneVersion /\ Undisturbed(tab) => Undisturbed(m)
      BY <1>1, <1>2, <1>7, <1>8, <3>3, ListUndisturbed
    <3> QED
      BY <1>1, <1>2, <1>8, <3>1, <3>2, <3>3, <3>4, ItGoesOn
  <2>4. CASE LastPage(rows, tab.cursor) /\ tab.at = "moments" /\ ~Same(n.first, n.of, {"moments"})
    <3>1. tab' = Stopped("changed")
      BY <1>1, <1>10, <2>4 DEF Complete
    <3>2. OneVersion /\ Undisturbed(tab) => FALSE
      <4> SUFFICES ASSUME OneVersion, Undisturbed(tab) PROVE FALSE
        OBVIOUS
      <4>1. n.first = IF tab.first = 0 THEN w ELSE tab.first
        BY <1>7, <2>4 DEF Grown
      <4>2. Same(w, tab.of, {"moments"})
        BY <1>1, <1>2, <2>4, AnswersMatch, SourcesAre DEF Matches, MomentLists
      <4>3. tab.first # 0 => Same(w, tab.first, {"moments"})
        BY <1>1, <1>2, <2>4, AnswersMatch DEF Matches
      <4>4. Same(n.first, tab.of, {"moments"})
        BY <4>1, <4>2, <4>3 DEF Same
      <4> QED
        BY <1>8, <2>4, <4>4
    <3>3. tab.moved
      BY <1>2, <3>2, MustHaveMoved
    <3> QED
      BY <1>1, <1>2, <3>1, <3>3, ItStops
  <2>5. CASE LastPage(rows, tab.cursor) /\ (tab.at = "moments" => Same(n.first, n.of, {"moments"}))
    <3>1. next \in Stages /\ next # "holdings" /\ next # "done"
      BY <1>1, AfterListIs
    <3> HIDE DEF next
    <3> DEFINE u == Turn(n, next)
    <3>2. Turned(n, u, next)
      BY <1>8, <3>1, TurnTurns
    <3> HIDE DEF u
    <3>3. Reading(u) /\ Own(n, tab.at) = RowsOf(tab.of, tab.at, tab.collection)
      BY <1>1, <1>2, <1>3, <1>4, <1>5, <1>7, <2>2, <2>5, <3>2, ListEnds DEF rows, page, next
    <3>4. Cardinality(Own(n, n.at)) = CountOf(n.of, n.at, n.collection)
      BY <1>8, <3>3 DEF CountOf
    <3>5. tab' = u
      BY <1>1, <1>8, <1>10, <2>5, <3>4 DEF Complete, u, next
    <3>6. /\ u \in Tabs /\ u.of = n.of /\ u.moved = n.moved /\ u.first = n.first /\ u.at # "holdings"
          /\ u.known = n.known /\ u.gone = n.gone
      BY <3>1, <3>2 DEF Turned
    <3>7. OneVersion /\ Undisturbed(tab) => Undisturbed(u)
      BY <1>1, <1>2, <1>7, <1>8, <3>6, ListUndisturbed
    <3> QED
      BY <1>1, <1>2, <1>8, <3>3, <3>5, <3>6, <3>7, ItGoesOn
  <2> QED
    BY <2>3, <2>4, <2>5
<1> QED
  BY <1>9, <1>10

\* A batch leaves the lists alone: what it may change is what was asked for,
\* the members, the profiles, and the details of Drops.
Batched(u) ==
  /\ u \in Tabs /\ u.at = tab.at /\ u.cursor = 0 /\ u.seen = {} /\ u.of = tab.of
  /\ u.first = tab.first /\ u.moved = tab.moved /\ u.collection = tab.collection
  /\ u.got = tab.got /\ u.read = tab.read

LEMMA BatchKeepsLists ==
  ASSUME tab \in Tabs, tab.at \notin Lists, Reading(tab), NEW u, Batched(u)
  PROVE  PlainRead(u) /\ RecordsRead(u) /\ CursorRight(u)
         /\ HeldDrops(u) = HeldDrops(tab) /\ Referenced(u) = Referenced(tab)
<1>1. /\ u.at = tab.at /\ u.cursor = 0 /\ u.seen = {} /\ u.of = tab.of
      /\ u.first = tab.first /\ u.collection = tab.collection
      /\ u.got = tab.got /\ u.read = tab.read
  BY DEF Batched
<1>2. PlainRead(tab) /\ RecordsRead(tab)
  BY DEF Reading
<1>3. \A l \in Plain : l # tab.at
  BY DEF Plain
<1>4. PlainRead(u)
  BY <1>1, <1>2, <1>3 DEF PlainRead
<1>5. RecordsRead(u)
  <2>1. \A l \in RecordLists : tab.at # l
    BY DEF Lists
  <2> QED
    BY <1>1, <1>2, <2>1 DEF RecordsRead
<1>6. CursorRight(u)
  BY <1>1 DEF CursorRight
<1>7. HeldDrops(u) = HeldDrops(tab) /\ Referenced(u) = Referenced(tab)
  BY <1>1 DEF HeldDrops, Referenced, TheirMoments
<1> QED
  BY <1>4, <1>5, <1>6, <1>7

LEMMA BatchGoesOn ==
  ASSUME ExportInv, tab \in Tabs, tab.at \notin Lists \cup {"done"}, Rest,
         NEW u, Batched(u), tab' = u, ReferencesRead(u), DetailsRead(u)
  PROVE  ExportInv'
<1>1. Reading(tab)
  BY TabIs
<1>2. Reading(u)
  BY <1>1, BatchKeepsLists DEF Reading
<1>3. u \in Tabs /\ u.of = tab.of /\ u.moved = tab.moved /\ u.first = tab.first /\ u.at = tab.at
  BY DEF Batched
<1>4. OneVersion /\ Undisturbed(tab) => Undisturbed(u)
  BY <1>3 DEF Undisturbed, Lists
<1> QED
  BY <1>2, <1>3, <1>4, ItGoesOn

LEMMA IdsArePending == Ids \subseteq Pending(tab)
BY DEF Ids, PageOf

LEMMA MembershipsAreNumbers ==
  ASSUME NEW v, NEW drops
  PROVE  MembershipsOf(v, drops) \in SUBSET (Nat \X Nat)
<1>1. Edition(v, "collections") \in {"old", "new"}
  BY DEF Edition
<1>2. Memberships[Edition(v, "collections")] \in SUBSET (Nat \X Nat)
  BY <1>1, ExportAssumption
<1> QED
  BY <1>2 DEF MembershipsOf

LEMMA NeedsNumbers ==
  ASSUME tab \in Tabs
  PROVE  /\ Needed(tab) \in SUBSET Nat /\ HeldDrops(tab) \in SUBSET Nat
         /\ Referenced(tab) \in SUBSET Nat
<1>1. /\ tab.members \in SUBSET (Nat \X Nat) /\ tab.got \in [Lists -> SUBSET (Nat \ {0})]
  BY DEF Tabs
<1>2. /\ tab.got["holdings"] \in SUBSET Nat /\ tab.got["owned"] \in SUBSET Nat
      /\ tab.got["moments"] \in SUBSET Nat /\ tab.got["tagged"] \in SUBSET Nat
      /\ tab.got["items"] \in SUBSET Nat /\ tab.got["extra"] \in SUBSET Nat
  BY <1>1 DEF Lists, MomentLists, RecordLists
<1>3. Needed(tab) \in SUBSET Nat
  <2>1. \A p \in tab.members : p[2] \in Nat
    BY <1>1
  <2> QED
    BY <1>2, <2>1 DEF Needed, TheirMoments
<1>4. HeldDrops(tab) \in SUBSET Nat
  BY <1>2, NumbersStay DEF HeldDrops
<1>5. Referenced(tab) \in SUBSET Nat
  <2>1. \A k \in tab.got["items"] \cup tab.got["extra"] : DropOf(k) \in Nat
    BY <1>2, NumbersStay
  <2> QED
    BY <1>2, <1>4, <2>1 DEF Referenced, TheirMoments
<1> QED
  BY <1>3, <1>4, <1>5

LEMMA MembershipsStep ==
  ASSUME ExportInv, NEW w \in 1..newest, ReadMemberships(w)
  PROVE  ExportInv'
<1>1. /\ tab.at = "memberships" /\ Fits(w) /\ Rest
      /\ tab' = [Turn(tab, tab.at) EXCEPT !.asked = @ \cup Ids,
                                          !.members = @ \cup MembershipsOf(w, Ids)]
  BY DEF ReadMemberships, Rest
<1>2. tab \in Tabs /\ Reading(tab) /\ tab.at \in Stages
      /\ tab.at \notin Lists \cup {"done"} \cup LastStages \cup {"owned", "profiles", "holdings"}
      /\ tab.at \notin RecordLists
  BY <1>1, TabIs DEF Stages, Lists, MomentLists, RecordLists, LastStages
<1>3. Turned(tab, Turn(tab, tab.at), tab.at)
  BY <1>2, TurnTurns
<1>4. PICK t \in Tabs : t = Turn(tab, tab.at) /\ Turned(tab, t, tab.at)
  BY <1>3 DEF Turned
<1>5. Ids \subseteq HeldDrops(tab) /\ Ids \subseteq Nat
  BY <1>1, <1>2, IdsArePending, NeedsNumbers DEF Pending
<1>6. Same(w, tab.of, {"collections"})
  BY <1>1, <1>2, FitMeans
<1>7. MembershipsOf(w, Ids) = MembershipsOf(tab.of, Ids)
  BY <1>6 DEF Same, MembershipsOf
<1>8. PICK asked \in SUBSET Nat, members \in SUBSET (Nat \X Nat) :
        asked = tab.asked \cup Ids /\ members = tab.members \cup MembershipsOf(tab.of, Ids)
  <2>1. tab.asked \cup Ids \in SUBSET Nat
    BY <1>2, <1>5 DEF Tabs
  <2>2. tab.members \cup MembershipsOf(tab.of, Ids) \in SUBSET (Nat \X Nat)
    BY <1>2, MembershipsAreNumbers DEF Tabs
  <2> QED
    BY <2>1, <2>2
<1> DEFINE u == [t EXCEPT !.asked = asked, !.members = members]
<1>9. tab' = u
  BY <1>1, <1>4, <1>7, <1>8 DEF Turned
<1>10. /\ u \in Tabs /\ u.asked = asked /\ u.members = members /\ u.at = t.at /\ u.cursor = t.cursor
       /\ u.seen = t.seen /\ u.of = t.of /\ u.first = t.first /\ u.moved = t.moved
       /\ u.collection = t.collection /\ u.got = t.got /\ u.read = t.read
       /\ u.known = t.known /\ u.gone = t.gone /\ u.profiles = t.profiles
  <2>1. t \in Tabs /\ asked \in SUBSET Nat /\ members \in SUBSET (Nat \X Nat)
    BY <1>4, <1>8
  <2>2. u \in Tabs
    BY <2>1 DEF Tabs
  <2>3. u.asked = asked /\ u.members = members /\ u.at = t.at /\ u.cursor = t.cursor
    BY <2>1 DEF Tabs
  <2>4. u.seen = t.seen /\ u.of = t.of /\ u.first = t.first /\ u.moved = t.moved
    BY <2>1 DEF Tabs
  <2>5. u.collection = t.collection /\ u.got = t.got /\ u.read = t.read
    BY <2>1 DEF Tabs
  <2>6. u.known = t.known /\ u.gone = t.gone /\ u.profiles = t.profiles
    BY <2>1 DEF Tabs
  <2> QED
    BY <2>2, <2>3, <2>4, <2>5, <2>6
<1> HIDE DEF u
<1>11. Batched(u) /\ u.known = tab.known /\ u.gone = tab.gone /\ u.profiles = tab.profiles
  BY <1>4, <1>10 DEF Batched, Turned
<1>12. HeldDrops(u) = HeldDrops(tab) /\ Referenced(u) = Referenced(tab)
  BY <1>2, <1>11, BatchKeepsLists
<1>13. DetailsRead(u)
  <2>1. DetailsRead(tab) /\ u.at = tab.at /\ u.of = tab.of
    BY <1>2, <1>11 DEF Reading, Batched
  <2>2. Known(u) = Known(tab)
    BY <1>11 DEF Known
  <2> QED
    BY <1>11, <1>12, <2>1, <2>2 DEF DetailsRead
<1>14. ReferencesRead(u)
  <2>1. /\ ReferencesRead(tab) /\ u.at = tab.at /\ u.of = tab.of /\ u.read = tab.read /\ u.got = tab.got
        /\ u.collection = tab.collection
    BY <1>2, <1>11 DEF Reading, Batched
  <2>2. u.asked \subseteq HeldDrops(u)
    BY <1>5, <1>8, <1>10, <1>12, <2>1 DEF ReferencesRead
  <2>3. u.members = MembershipsOf(u.of, u.asked)
    BY <1>8, <1>10, <2>1 DEF ReferencesRead, MembershipsOf
  <2>4. Needed(tab) \subseteq Needed(u)
    BY <1>8, <1>10, <2>1 DEF Needed, TheirMoments
  <2>5. u.profiles \subseteq Needed(u)
    BY <1>11, <2>1, <2>4 DEF ReferencesRead
  <2>6. u.at \notin {"owned", "profiles"} \cup LastStages \cup {"drops", "done"} \cup RecordLists
    BY <1>2, <2>1 DEF LastStages
  <2> QED
    BY <2>1, <2>2, <2>3, <2>5, <2>6 DEF ReferencesRead
<1> QED
  BY <1>1, <1>2, <1>9, <1>11, <1>13, <1>14, BatchGoesOn

LEMMA ProfilesStep ==
  ASSUME ExportInv, NEW w \in 1..newest, ReadProfiles(w)
  PROVE  ExportInv'
<1>1. /\ tab.at = "profiles" /\ Fits(w) /\ Rest
      /\ tab' = IF ProfilesOf(w, Ids) = Ids
                THEN [Turn(tab, tab.at) EXCEPT !.profiles = @ \cup Ids]
                ELSE Stopped("unavailable")
  BY DEF ReadProfiles, Rest
<1>2. tab \in Tabs /\ Reading(tab) /\ tab.at \in Stages /\ Running
      /\ tab.at \notin Lists \cup {"done", "drops"} \cup LastStages \cup {"owned", "holdings"}
      /\ tab.at \notin RecordLists
  BY <1>1, TabIs DEF Stages, Lists, MomentLists, RecordLists, LastStages
<1>3. CASE ProfilesOf(w, Ids) # Ids
  BY <1>1, <1>2, <1>3, ItStops
<1>4. CASE ProfilesOf(w, Ids) = Ids
  <2>1. PICK t \in Tabs : t = Turn(tab, tab.at) /\ Turned(tab, t, tab.at)
    BY <1>2, TurnTurns DEF Turned
  <2>2. Ids \subseteq Needed(tab) /\ Ids \subseteq Nat
    BY <1>1, <1>2, IdsArePending, NeedsNumbers DEF Pending
  <2>3. PICK profiles \in SUBSET Nat : profiles = tab.profiles \cup Ids
    BY <1>2, <2>2 DEF Tabs
  <2> DEFINE u == [t EXCEPT !.profiles = profiles]
  <2>4. tab' = u
    BY <1>1, <1>4, <2>1, <2>3 DEF Turned
  <2>5. /\ u \in Tabs /\ u.profiles = profiles /\ u.at = t.at /\ u.cursor = t.cursor
        /\ u.seen = t.seen /\ u.of = t.of /\ u.first = t.first /\ u.moved = t.moved
        /\ u.collection = t.collection /\ u.got = t.got /\ u.read = t.read
        /\ u.known = t.known /\ u.gone = t.gone /\ u.asked = t.asked /\ u.members = t.members
    BY <2>1 DEF Tabs
  <2> HIDE DEF u
  <2>6. Batched(u) /\ u.known = tab.known /\ u.gone = tab.gone /\ u.asked = tab.asked
        /\ u.members = tab.members
    BY <2>1, <2>5 DEF Batched, Turned
  <2>7. HeldDrops(u) = HeldDrops(tab) /\ Referenced(u) = Referenced(tab)
    BY <1>2, <2>6, BatchKeepsLists
  <2>8. DetailsRead(u)
    <3>1. DetailsRead(tab) /\ u.at = tab.at /\ u.of = tab.of
      BY <1>2, <2>6 DEF Reading, Batched
    <3>2. Known(u) = Known(tab)
      BY <2>6 DEF Known
    <3> QED
      BY <2>6, <2>7, <3>1, <3>2 DEF DetailsRead
  <2>9. ReferencesRead(u)
    <3>1. /\ ReferencesRead(tab) /\ u.at = tab.at /\ u.of = tab.of /\ u.read = tab.read
          /\ u.got = tab.got /\ u.collection = tab.collection
      BY <1>2, <2>6 DEF Reading, Batched
    <3>2. Needed(u) = Needed(tab)
      BY <2>6, <3>1 DEF Needed, TheirMoments
    <3>3. u.profiles \subseteq Needed(u)
      BY <2>2, <2>3, <2>5, <3>1, <3>2 DEF ReferencesRead
    <3>4. u.at \notin LastStages \cup {"drops", "done"} \cup RecordLists
      BY <1>2, <3>1
    <3> QED
      BY <2>6, <2>7, <3>1, <3>3, <3>4 DEF ReferencesRead
  <2> QED
    BY <1>1, <1>2, <2>4, <2>6, <2>8, <2>9, BatchGoesOn
<1> QED
  BY <1>3, <1>4

LEMMA ContentsStep ==
  ASSUME ExportInv, NEW w \in 1..newest, ReadContents(w)
  PROVE  ExportInv'
<1>1. /\ tab.at = "contents" /\ Pending(tab) # {} /\ Rest
      /\ tab' = [Turn(tab, "items") EXCEPT !.collection = Min(Pending(tab)),
                                           !.read = @ \cup {Min(Pending(tab))}]
  BY DEF ReadContents, Rest
<1>2. tab \in Tabs /\ Reading(tab) /\ "items" \in Stages /\ tab.at # "done"
  BY <1>1, TabIs DEF Stages, Lists, MomentLists, RecordLists
<1>3. Pending(tab) = tab.got["owned"] \ tab.read
  BY <1>1 DEF Pending
<1>4. Pending(tab) \in SUBSET Nat
  BY <1>2, <1>3 DEF Tabs, Lists
<1>5. PICK c \in Nat : c = Min(Pending(tab)) /\ c \in tab.got["owned"] /\ c \notin tab.read
  BY <1>1, <1>3, <1>4, MinOf
<1>6. PICK t \in Tabs : t = Turn(tab, "items") /\ Turned(tab, t, "items")
  BY <1>2, TurnTurns DEF Turned
<1>7. PICK read \in SUBSET Nat : read = tab.read \cup {c}
  BY <1>2 DEF Tabs
<1> DEFINE u == [t EXCEPT !.collection = c, !.read = read]
<1>8. tab' = u
  BY <1>1, <1>5, <1>6, <1>7 DEF Turned
<1>9. /\ u \in Tabs /\ u.profiles = t.profiles /\ u.at = t.at /\ u.cursor = t.cursor
      /\ u.seen = t.seen /\ u.of = t.of /\ u.first = t.first /\ u.moved = t.moved
      /\ u.collection = c /\ u.got = t.got /\ u.read = read
      /\ u.known = t.known /\ u.gone = t.gone /\ u.asked = t.asked /\ u.members = t.members
  BY <1>6 DEF Tabs
<1> HIDE DEF u
<1>10. /\ u.at = "items" /\ u.cursor = 0 /\ u.seen = {} /\ u.of = tab.of /\ u.first = tab.first
       /\ u.moved = tab.moved /\ u.got = tab.got /\ u.known = tab.known /\ u.gone = tab.gone
       /\ u.asked = tab.asked /\ u.members = tab.members /\ u.profiles = tab.profiles
  BY <1>6, <1>9 DEF Turned
<1>11. /\ HeldDrops(u) = HeldDrops(tab) /\ Referenced(u) = Referenced(tab)
       /\ Needed(u) = Needed(tab) /\ Known(u) = Known(tab)
  BY <1>10 DEF HeldDrops, Referenced, Needed, Known, TheirMoments
<1>12. PlainRead(u)
  <2>1. \A l \in Plain : l # "items" /\ l # "contents"
    BY DEF Plain, Lists, MomentLists, RecordLists
  <2>2. Unread("items") = {} /\ Unread("contents") = {}
    BY DEF Unread
  <2>3. PlainRead(tab)
    BY <1>2 DEF Reading
  <2> QED
    BY <1>1, <1>10, <2>1, <2>2, <2>3 DEF PlainRead
<1>13. RecordsRead(u)
  <2> SUFFICES ASSUME NEW l \in RecordLists
               PROVE  u.got[l] = {k \in Keys[l][Edition(u.of, "collections")] :
                  /\ CollectionOf(k) \in u.read
                  /\ CollectionOf(k) = u.collection =>
                       ~(u.at = "items" /\ l = "extra") /\ (u.at = l => k <= u.cursor)}
    BY DEF RecordsRead
  <2>1. l \in Lists /\ SourceOf(l) = "collections" /\ l \in {"items", "extra"}
    BY DEF Lists, SourceOf, RecordLists, MomentLists
  <2>2. RecordsRead(tab)
    BY <1>2 DEF Reading
  <2>3. tab.got[l] = {k \in Keys[l][Edition(tab.of, "collections")] : CollectionOf(k) \in tab.read}
    BY <1>1, <2>1, <2>2 DEF RecordsRead
  <2>4. \A k \in Keys[l][Edition(tab.of, "collections")] : ~(k <= 0)
    <3>1. Keys[l][Edition(tab.of, SourceOf(l))] \in SUBSET (Nat \ {0})
      BY <2>1, RowsAreNumbers
    <3> QED
      BY <2>1, <3>1
  <2>5. \A k \in Keys[l][Edition(tab.of, "collections")] :
          CollectionOf(k) \in tab.read <=>
             /\ CollectionOf(k) \in u.read
             /\ CollectionOf(k) = u.collection =>
                  ~(u.at = "items" /\ l = "extra") /\ (u.at = l => k <= u.cursor)
    BY <1>5, <1>7, <1>9, <1>10, <2>1, <2>4
  <2> QED
    BY <1>10, <2>3, <2>5
<1>14. CursorRight(u)
  BY <1>10 DEF CursorRight
<1>15. ReferencesRead(u)
  <2>1. ReferencesRead(tab)
    BY <1>2 DEF Reading
  <2> QED
    BY <1>1, <1>5, <1>7, <1>9, <1>10, <1>11, <2>1 DEF ReferencesRead, LastStages, RecordLists
<1>16. DetailsRead(u)
  <2>1. DetailsRead(tab)
    BY <1>2 DEF Reading
  <2> QED
    BY <1>1, <1>10, <1>11, <2>1 DEF DetailsRead
<1>17. OneVersion /\ Undisturbed(tab) => Undisturbed(u)
  BY <1>10 DEF Undisturbed
<1> QED
  BY <1>1, <1>2, <1>8, <1>9, <1>10, <1>12, <1>13, <1>14, <1>15, <1>16, <1>17, ItGoesOn DEF Reading

LEMMA DropsStep ==
  ASSUME ExportInv, NEW w \in 1..newest, ReadDrops(w)
  PROVE  ExportInv'
<1> DEFINE public == PublicOf(w, Ids)
           found == {<<d, "public">> : d \in public}
<1>1. /\ tab.at = "drops" /\ Fits(w) /\ Rest
      /\ tab' = [Turn(tab, tab.at) EXCEPT !.known = @ \cup found, !.gone = @ \cup (Ids \ public)]
  BY DEF ReadDrops, Rest
<1>2. tab \in Tabs /\ Reading(tab) /\ tab.at \in Stages /\ tab.at \notin Lists \cup {"done", "holdings"}
  BY <1>1, TabIs DEF Stages, Lists, MomentLists, RecordLists
<1>3. PICK t \in Tabs : t = Turn(tab, tab.at) /\ Turned(tab, t, tab.at)
  BY <1>2, TurnTurns DEF Turned
<1>4. Ids \subseteq Referenced(tab) /\ Ids \cap (Known(tab) \cup tab.gone) = {} /\ Ids \subseteq Nat
  BY <1>1, <1>2, IdsArePending, NeedsNumbers DEF Pending
<1>5. public = Ids \cap Public(tab.of)
  <2>1. SnapshotId(w, "catalog") = SnapshotId(tab.of, "holdings")
    BY <1>1, <1>2, FitMeans
  <2>2. Edition(w, "catalog") = Edition(tab.of, "holdings") /\ ~split
    BY <2>1 DEF SnapshotId
  <2>3. Edition(tab.of, "holdings") = Edition(tab.of, "catalog")
    BY <2>2 DEF ExportInv, Edition
  <2> QED
    BY <2>2, <2>3 DEF PublicOf, Public
<1> HIDE DEF public
<1>6. IsFiniteSet(public)
  <2>1. Edition(tab.of, "catalog") \in {"old", "new"}
    BY DEF Edition
  <2>2. IsFiniteSet(Public(tab.of))
    BY <2>1, ExportAssumption DEF Public
  <2> QED
    BY <1>5, <2>2, FS_Subset
<1>7. IsFiniteSet(found)
  <2> DEFINE f == [d \in public |-> <<d, "public">>]
  <2>1. f \in Surjection(public, found)
    BY DEF Surjection
  <2> HIDE DEF f, found
  <2> QED
    BY <1>6, <2>1, FS_Surjection
<1>8. /\ \A p \in found : p = <<p[1], p[2]>> /\ p[1] \in public /\ p[2] = "public"
      /\ \A d \in public : \E p \in found : p[1] = d
  <2>1. \A d \in public : <<d, "public">> \in found /\ <<d, "public">>[1] = d
    OBVIOUS
  <2>2. \A p \in found : p = <<p[1], p[2]>> /\ p[1] \in public /\ p[2] = "public"
    OBVIOUS
  <2> HIDE DEF found
  <2> QED
    BY <2>1, <2>2
<1>9. found \in SUBSET (Nat \X {"public", "private", "old", "new"})
  BY <1>4, <1>5
<1> HIDE DEF found
<1>10. PICK known \in SUBSET (Nat \X {"public", "private", "old", "new"}), gone \in SUBSET Nat :
         known = tab.known \cup found /\ gone = tab.gone \cup (Ids \ public)
  <2>1. tab.known \in SUBSET (Nat \X {"public", "private", "old", "new"}) /\ tab.gone \in SUBSET Nat
    BY <1>2 DEF Tabs
  <2>2. tab.known \cup found \in SUBSET (Nat \X {"public", "private", "old", "new"})
    BY <1>9, <2>1
  <2>3. tab.gone \cup (Ids \ public) \in SUBSET Nat
    BY <1>4, <2>1
  <2> QED
    BY <2>2, <2>3
<1> DEFINE u == [t EXCEPT !.known = known, !.gone = gone]
<1>11. tab' = u
  BY <1>1, <1>3, <1>10 DEF Turned
<1>12. /\ u \in Tabs /\ u.profiles = t.profiles /\ u.at = t.at /\ u.cursor = t.cursor
       /\ u.seen = t.seen /\ u.of = t.of /\ u.first = t.first /\ u.moved = t.moved
       /\ u.collection = t.collection /\ u.got = t.got /\ u.read = t.read
       /\ u.known = known /\ u.gone = gone /\ u.asked = t.asked /\ u.members = t.members
  <2>1. /\ t \in Tabs /\ gone \in SUBSET Nat
        /\ known \in SUBSET (Nat \X {"public", "private", "old", "new"})
    BY <1>3, <1>10
  <2>2. u \in Tabs
    BY <2>1 DEF Tabs
  <2>3. u.profiles = t.profiles /\ u.at = t.at /\ u.cursor = t.cursor
    BY <2>1 DEF Tabs
  <2>4. u.seen = t.seen /\ u.of = t.of /\ u.first = t.first /\ u.moved = t.moved
    BY <2>1 DEF Tabs
  <2>5. u.collection = t.collection /\ u.got = t.got /\ u.read = t.read
    BY <2>1 DEF Tabs
  <2>6. u.known = known /\ u.gone = gone /\ u.asked = t.asked /\ u.members = t.members
    BY <2>1 DEF Tabs
  <2> QED
    BY <2>2, <2>3, <2>4, <2>5, <2>6
<1> HIDE DEF u
<1>13. Batched(u) /\ u.profiles = tab.profiles /\ u.asked = tab.asked /\ u.members = tab.members
  BY <1>3, <1>12 DEF Batched, Turned
<1>14. HeldDrops(u) = HeldDrops(tab) /\ Referenced(u) = Referenced(tab)
  BY <1>2, <1>13, BatchKeepsLists
<1>15. u.at = tab.at /\ u.of = tab.of /\ u.read = tab.read /\ u.got = tab.got
       /\ u.collection = tab.collection
  BY <1>13 DEF Batched
<1>16. ReferencesRead(u)
  <2>1. ReferencesRead(tab)
    BY <1>2 DEF Reading
  <2>2. Needed(u) = Needed(tab)
    BY <1>13, <1>15 DEF Needed, TheirMoments
  <2> QED
    BY <1>13, <1>14, <1>15, <2>1, <2>2 DEF ReferencesRead
<1>17. DetailsRead(u)
  <2>1. DetailsRead(tab)
    BY <1>2 DEF Reading
  <2>2. IsFiniteSet(u.known)
    <3>1. IsFiniteSet(tab.known)
      BY <2>1 DEF DetailsRead
    <3>2. IsFiniteSet(tab.known \cup found)
      BY <1>7, <3>1, FS_Union
    <3> QED
      BY <1>10, <1>12, <3>2
  <2>3. Known(u) = Known(tab) \cup public
    BY <1>8, <1>10, <1>12 DEF Known
  <2>4. HeldDrops(tab) \cap Ids = {}
    BY <1>4, <2>1 DEF DetailsRead
  <2>5. \A p \in tab.known : p[1] \in Known(tab)
    BY DEF Known
  <2>6. ASSUME NEW p \in u.known, NEW q \in u.known, p[1] = q[1] PROVE p = q
    <3>1. CASE p \in tab.known /\ q \in tab.known
      BY <2>1, <2>6, <3>1 DEF DetailsRead
    <3>2. CASE p \in found /\ q \in found
      BY <1>8, <2>6, <3>2
    <3>3. p \in tab.known => q \notin found
      BY <1>4, <1>5, <1>8, <2>5, <2>6
    <3>4. q \in tab.known => p \notin found
      BY <1>4, <1>5, <1>8, <2>5, <2>6
    <3> QED
      BY <1>10, <1>12, <3>1, <3>2, <3>3, <3>4
  <2>7. ASSUME NEW p \in u.known
        PROVE  /\ p[1] \notin u.gone
               /\ p[2] = "public" <=> p[1] \in Public(tab.of)
               /\ p[2] = "private" <=> p[1] \in HeldDrops(tab) /\ p[1] \in Cards(tab.of)
    <3>1. CASE p \in tab.known
      BY <1>4, <1>10, <1>12, <2>1, <2>5, <3>1 DEF DetailsRead
    <3>2. CASE p \in found
      <4>1. p[1] \in Ids /\ p[1] \in Public(tab.of) /\ p[2] = "public" /\ p[1] \in public
        BY <1>5, <1>8, <3>2
      <4>2. p[1] \notin tab.gone /\ p[1] \notin HeldDrops(tab)
        BY <1>4, <2>4, <4>1
      <4> QED
        BY <1>10, <1>12, <4>1, <4>2
    <3> QED
      BY <1>10, <1>12, <3>1, <3>2
  <2>8. \A d \in u.gone : d \notin Public(tab.of) /\ (d \in HeldDrops(tab) => d \notin Cards(tab.of))
    BY <1>5, <1>10, <1>12, <2>1, <2>4 DEF DetailsRead
  <2>9. HeldDrops(u) \subseteq Known(u) \cup u.gone
    BY <1>10, <1>12, <1>14, <2>1, <2>3 DEF DetailsRead
  <2>10. Known(u) \cup u.gone \subseteq Referenced(u)
    BY <1>4, <1>5, <1>10, <1>12, <1>14, <2>1, <2>3 DEF DetailsRead
  <2> QED
    BY <1>2, <1>14, <1>15, <2>2, <2>6, <2>7, <2>8, <2>9, <2>10 DEF DetailsRead
<1> QED
  BY <1>1, <1>2, <1>11, <1>13, <1>16, <1>17, BatchGoesOn

LEMMA ProceedStep ==
  ASSUME ExportInv, Proceed
  PROVE  ExportInv'
<1>1. PICK next \in {"owned", "contents", "drops", "done"} :
        /\ tab' = Turn(tab, next)
        /\ \/ tab.at = "memberships" /\ next = "owned"
           \/ tab.at = "profiles" /\ next = "contents"
           \/ tab.at = "contents" /\ next = "drops"
           \/ tab.at = "drops" /\ next = "done"
  BY DEF Proceed
<1>2. Pending(tab) = {} /\ Rest /\ tab.at \in {"memberships", "profiles", "contents", "drops"}
  BY DEF Proceed, Rest
<1>3. tab \in Tabs /\ Reading(tab) /\ next \in Stages /\ tab.at # "done"
  BY <1>1, <1>2, TabIs DEF Stages, Lists, MomentLists, RecordLists
<1>4. PICK u \in Tabs : u = Turn(tab, next) /\ Turned(tab, u, next)
  BY <1>3, TurnTurns DEF Turned
<1>5. ReferencesRead(tab) /\ DetailsRead(tab) /\ PlainRead(tab) /\ RecordsRead(tab)
  BY <1>3 DEF Reading
<1>6. DetailsRead(u)
  <2>1. next = "done" => Referenced(tab) = Known(tab) \cup tab.gone
    BY <1>1, <1>2, <1>5 DEF Pending, DetailsRead
  <2> QED
    BY <1>1, <1>4, <1>5, <2>1, TurnedDetails
<1>7. ReferencesRead(u)
  <2>1. next \in {"owned", "profiles"} \cup LastStages => tab.asked = HeldDrops(tab)
    BY <1>1, <1>2, <1>5 DEF Pending, ReferencesRead, LastStages
  <2>2. next \in LastStages => tab.profiles = Needed(tab)
    BY <1>1, <1>2, <1>5 DEF Pending, ReferencesRead, LastStages
  <2>3. next \notin LastStages => tab.read = {}
    BY <1>1, <1>5 DEF ReferencesRead, LastStages
  <2>4. next \in {"drops", "done"} => tab.read = tab.got["owned"]
    BY <1>1, <1>2, <1>5 DEF Pending, ReferencesRead
  <2>5. next \notin RecordLists
    BY <1>1 DEF RecordLists
  <2> QED
    BY <1>4, <1>5, <2>1, <2>2, <2>3, <2>4, <2>5, TurnedReferences
<1>8. /\ u.at = next /\ u.cursor = 0 /\ u.seen = {} /\ u.of = tab.of /\ u.first = tab.first
      /\ u.moved = tab.moved /\ u.collection = tab.collection /\ u.got = tab.got
      /\ u.known = tab.known /\ u.gone = tab.gone /\ u.read = tab.read
  BY <1>4 DEF Turned
<1>9. CursorRight(u)
  BY <1>8 DEF CursorRight
<1>10. PlainRead(u)
  <2> SUFFICES ASSUME NEW l \in Plain
               PROVE  /\ l = u.at => u.got[l] = {k \in RowsOf(Source(u), l, 0) : k <= u.cursor}
                      /\ l \in Unread(u.at) => u.got[l] = {}
                      /\ l # u.at /\ l \notin Unread(u.at) => u.got[l] = RowsOf(u.of, l, 0)
    BY DEF PlainRead
  <2>1. l \in Lists /\ l # tab.at
    BY <1>2 DEF Plain, Lists, MomentLists, RecordLists
  <2>2. CASE tab.at = "memberships"
    <3>1. next = "owned" /\ Unread(tab.at) = {"owned"} /\ Unread(next) = {}
      BY <1>1, <2>2 DEF Unread
    <3>2. {k \in RowsOf(Source(u), l, 0) : k <= 0} = {}
      <4>1. RowsOf(Source(u), l, 0) \in SUBSET (Nat \ {0})
        BY <2>1, RowsAreNumbers
      <4> QED
        BY <4>1
    <3> QED
      BY <1>5, <1>8, <2>1, <3>1, <3>2 DEF PlainRead
  <2>3. CASE tab.at # "memberships"
    <3>1. next \notin Plain /\ Unread(tab.at) = {} /\ Unread(next) = {}
      BY <1>1, <2>3 DEF Unread, Plain, Lists, MomentLists, RecordLists
    <3> QED
      BY <1>5, <1>8, <2>1, <3>1 DEF PlainRead
  <2> QED
    BY <2>2, <2>3
<1>11. RecordsRead(u)
  <2>1. \A l \in RecordLists : tab.at # l /\ next # l /\ tab.at # "items" /\ next # "items"
    BY <1>1 DEF RecordLists
  <2> QED
    BY <1>5, <1>8, <2>1 DEF RecordsRead
<1>12. OneVersion /\ Undisturbed(tab) => Undisturbed(u)
  BY <1>1, <1>8 DEF Undisturbed
<1> QED
  BY <1>2, <1>3, <1>4, <1>6, <1>7, <1>8, <1>9, <1>10, <1>11, <1>12, <1>1, ItGoesOn DEF Reading

LEMMA UnfitStep ==
  ASSUME ExportInv, NEW w \in 1..newest, Unfit(w)
  PROVE  ExportInv'
<1>1. /\ Running /\ tab.at # "manifest" /\ Answers(w) /\ ~Fits(w) /\ Rest
      /\ tab' = Stopped("changed")
  BY DEF Unfit, Asking, Rest
<1>2. tab \in Tabs /\ tab.at # "done"
  BY <1>1, TabIs
<1>3. ASSUME ~split PROVE tab.moved
  <2>1. OneVersion /\ Undisturbed(tab) => FALSE
    BY <1>1, <1>2, <1>3, AnswersMatch, MatchFits DEF ExportInv
  <2> QED
    BY <1>1, <1>2, <2>1, MustHaveMoved
<1> QED
  BY <1>1, <1>3, ItStops

LEMMA RefusedStep ==
  ASSUME ExportInv, NEW v \in 1..newest, Refused(v)
  PROVE  ExportInv'
<1>1. Running /\ v \in serving /\ Foreign(v) /\ tab' = Stopped("refused") /\ Rest
  BY DEF Refused, Rest
<1>2. tab \in Tabs
  <2>1. tab.cursor # 0
    BY <1>1 DEF Foreign
  <2> QED
    BY <1>1, <2>1, TabIs
<1>3. CursorRight(tab)
  BY <1>2, TabIs DEF Reading
<1>4. OneVersion /\ Undisturbed(tab) => FALSE
  BY <1>1, <1>2, <1>3, NoneForeign
<1>5. tab.moved
  BY <1>1, <1>2, <1>4, MustHaveMoved
<1> QED
  BY <1>1, <1>5, ItStops

\* The count of refusals and the mark of a roll-out say nothing of the archive.
Marked(u) ==
  /\ u \in Tabs /\ u.at = tab.at /\ u.cursor = tab.cursor /\ u.seen = tab.seen /\ u.of = tab.of
  /\ u.first = tab.first /\ u.collection = tab.collection /\ u.got = tab.got
  /\ u.known = tab.known /\ u.gone = tab.gone /\ u.asked = tab.asked
  /\ u.members = tab.members /\ u.profiles = tab.profiles /\ u.read = tab.read

LEMMA MarkedReads ==
  ASSUME Reading(tab), NEW u, Marked(u)
  PROVE  Reading(u) /\ (Undisturbed(tab) => Undisturbed(u))
<1>1. /\ u.at = tab.at /\ u.cursor = tab.cursor /\ u.seen = tab.seen /\ u.of = tab.of
      /\ u.first = tab.first /\ u.collection = tab.collection /\ u.got = tab.got
      /\ u.known = tab.known /\ u.gone = tab.gone /\ u.asked = tab.asked
      /\ u.members = tab.members /\ u.profiles = tab.profiles /\ u.read = tab.read
  BY DEF Marked
<1>2. /\ HeldDrops(u) = HeldDrops(tab) /\ Referenced(u) = Referenced(tab)
      /\ Needed(u) = Needed(tab) /\ Known(u) = Known(tab) /\ Source(u) = Source(tab)
  BY <1>1 DEF HeldDrops, Referenced, Needed, Known, TheirMoments, Source
<1>3. PlainRead(u)
  BY <1>1, <1>2 DEF Reading, PlainRead
<1>4. RecordsRead(u)
  BY <1>1 DEF Reading, RecordsRead
<1>5. CursorRight(u)
  BY <1>1 DEF Reading, CursorRight
<1>6. ReferencesRead(u)
  BY <1>1, <1>2 DEF Reading, ReferencesRead
<1>7. DetailsRead(u)
  BY <1>1, <1>2 DEF Reading, DetailsRead
<1>8. Undisturbed(tab) => Undisturbed(u)
  BY <1>1 DEF Undisturbed
<1> QED
  BY <1>3, <1>4, <1>5, <1>6, <1>7, <1>8 DEF Reading

LEMMA BusyStep ==
  ASSUME ExportInv, TooBusy
  PROVE  ExportInv'
<1>1. /\ Running /\ Rest
      /\ tab' = IF tab.at # "manifest" /\ tab.busy < MaxBusy
                THEN [tab EXCEPT !.busy = tab.busy + 1] ELSE Stopped("busy")
  BY DEF TooBusy, Asking, Rest
<1>2. CASE ~(tab.at # "manifest" /\ tab.busy < MaxBusy)
  BY <1>1, <1>2, ItStops
<1>3. CASE tab.at # "manifest" /\ tab.busy < MaxBusy
  <2>1. tab \in Tabs /\ Reading(tab) /\ tab.at # "done"
    BY <1>1, <1>3, TabIs
  <2>2. PICK b \in Nat : b = tab.busy + 1
    BY <2>1 DEF Tabs
  <2> DEFINE u == [tab EXCEPT !.busy = b]
  <2>3. Marked(u) /\ u.moved = tab.moved
    BY <2>1, <2>2 DEF Tabs, Marked
  <2>4. tab' = u
    BY <1>1, <1>3, <2>2
  <2> HIDE DEF u
  <2>5. u \in Tabs /\ u.of = tab.of
    BY <2>3 DEF Marked
  <2> QED
    BY <1>1, <2>1, <2>3, <2>4, <2>5, MarkedReads, ItGoesOn
<1> QED
  BY <1>2, <1>3

LEMMA StartStep ==
  ASSUME ExportInv, Start
  PROVE  ExportInv'
<1>1. /\ tab' = [at |-> "manifest", busy |-> 0, cursor |-> 0, moved |-> Cardinality(serving) > 1]
      /\ changed' = changed /\ split' = split /\ serving' = serving /\ newest' = newest
  BY DEF Start
<1>2. (tab \in Firsts)' /\ tab'.at = "manifest" /\ tab'.moved = (Cardinality(serving) > 1)
  BY <1>1 DEF Firsts
<1>3. IsFiniteSet(serving) /\ Cardinality(serving) \in Nat
  <2>1. newest \in Int /\ 1 \in Int
    BY TabIs
  <2>2. IsFiniteSet(1..newest)
    BY <2>1, FS_Interval
  <2>3. serving \subseteq 1..newest
    BY DEF ExportInv
  <2> QED
    BY <2>2, <2>3, FS_Subset, FS_CardinalityType
<1>4. ASSUME ~(Cardinality(serving) > 1), NEW v \in serving, NEW x \in serving, v # x PROVE FALSE
  <2>1. IsFiniteSet({v}) /\ Cardinality({v}) = 1
    BY FS_Singleton
  <2>2. Cardinality({v} \cup {x}) = 2
    BY <1>4, <2>1, FS_AddElement
  <2>3. {v} \cup {x} \in SUBSET serving
    OBVIOUS
  <2>4. 2 <= Cardinality(serving)
    BY <1>3, <2>2, <2>3, FS_Subset
  <2> QED
    BY <1>3, <1>4, <2>4
<1>5. ~tab'.moved => OneVersion'
  BY <1>1, <1>2, <1>4 DEF OneVersion
<1>6. /\ newest' \in 1..MaxVersion /\ serving' \in SUBSET (1..newest')
      /\ ~split' => ("catalog" \in changed' <=> "holdings" \in changed')
  BY <1>1 DEF ExportInv
<1>7. StopsOnlyForChange'
  BY <1>2 DEF StopsOnlyForChange
<1> QED
  BY <1>2, <1>5, <1>6, <1>7 DEF ExportInv

\* Steps that leave the tab alone, and those that mark it.
LEMMA TabStays ==
  ASSUME ExportInv, tab' = tab, changed' = changed, split' = split,
         newest' \in newest..MaxVersion, serving' \in SUBSET (1..newest'),
         Running => serving' \subseteq serving
  PROVE  ExportInv'
<1>1. newest \in Nat /\ MaxVersion \in Nat /\ newest \in 1..MaxVersion
  BY TabIs DEF ExportInv
<1>2. newest' \in 1..MaxVersion
  BY <1>1
<1>3. Running' <=> Running
  BY DEF Running
<1>4. (tab \in NoTabs \cup Firsts)' \/ (tab \in Tabs /\ tab.of <= newest /\ Reading(tab))'
  <2>1. CASE tab \in NoTabs \cup Firsts
    BY <2>1 DEF NoTabs, NoExport, Firsts
  <2>2. CASE tab \in Tabs
    <3>1. Reading(tab) /\ tab.of \in 1..newest
      BY <2>2, TabIs
    <3>2. Reading(tab)'
      BY <3>1, ReadingStays
    <3>3. \A a \in Nat, b \in newest..MaxVersion : a <= newest => a <= b
      BY <1>1
    <3>4. tab.of <= newest'
      BY <1>1, <3>1, <3>3
    <3>5. (tab \in Tabs)'
      BY <2>2 DEF Tabs
    <3> QED
      BY <3>2, <3>4, <3>5
  <2> QED
    BY <2>1, <2>2 DEF ExportInv
<1>5. ASSUME Running, ~tab.moved
      PROVE  OneVersion' /\ ((tab.at # "manifest") => Undisturbed(tab)')
  <2>1. OneVersion /\ (tab.at # "manifest" => Undisturbed(tab))
    BY <1>5 DEF ExportInv
  <2>2. serving' \subseteq serving
    BY <1>5
  <2>3. OneVersion'
    BY <2>1, <2>2 DEF OneVersion
  <2>4. Undisturbed(tab) => Undisturbed(tab)'
    BY <2>2 DEF Undisturbed, Same, Detail, Edition
  <2> QED
    BY <2>1, <2>3, <2>4
<1>6. (Running /\ ~tab.moved => OneVersion /\ (tab.at # "manifest" => Undisturbed(tab)))'
  BY <1>3, <1>5
<1>7. /\ ~split' => ("catalog" \in changed' <=> "holdings" \in changed')
      /\ (~split => StopsOnlyForChange)'
  BY DEF ExportInv, StopsOnlyForChange
<1> QED
  BY <1>2, <1>4, <1>6, <1>7 DEF ExportInv

LEMMA DeployStep ==
  ASSUME ExportInv, Deploy
  PROVE  ExportInv'
<1>1. /\ newest < MaxVersion /\ newest' = newest + 1 /\ serving' = serving \cup {newest'}
      /\ tab' = IF Running THEN [tab EXCEPT !.moved = TRUE] ELSE tab
      /\ changed' = changed /\ split' = split
  BY DEF Deploy
<1>2. newest \in Nat /\ MaxVersion \in Nat /\ newest \in 1..MaxVersion /\ serving \in SUBSET (1..newest)
  BY TabIs DEF ExportInv
<1>3. PICK m \in newest..MaxVersion : newest' = m /\ m = newest + 1 /\ m \in 1..MaxVersion
  BY <1>1, <1>2
<1>4. newest' \in newest..MaxVersion /\ newest' \in 1..MaxVersion /\ serving' \in SUBSET (1..newest')
  <2>1. 1..newest \subseteq 1..m /\ m \in 1..m
    BY <1>2, <1>3
  <2> QED
    BY <1>1, <1>2, <1>3, <2>1
<1>5. CASE ~Running
  BY <1>1, <1>4, <1>5, TabStays
<1>6. CASE Running /\ tab \in Firsts
  <2>1. tab' = [tab EXCEPT !.moved = TRUE]
    BY <1>1, <1>6
  <2>2. (tab \in Firsts)' /\ tab'.at = "manifest" /\ tab'.moved
    BY <1>6, <2>1 DEF Firsts
  <2>3. /\ ~split' => ("catalog" \in changed' <=> "holdings" \in changed')
        /\ StopsOnlyForChange'
    BY <1>1, <2>2 DEF ExportInv, StopsOnlyForChange
  <2> QED
    BY <1>4, <2>2, <2>3 DEF ExportInv
<1>7. CASE Running /\ tab \in Tabs
  <2> DEFINE u == [tab EXCEPT !.moved = TRUE]
  <2>1. tab' = u
    BY <1>1, <1>7
  <2>2. Marked(u) /\ u.moved
    BY <1>7 DEF Tabs, Marked
  <2> HIDE DEF u
  <2>3. Reading(tab) /\ tab.of \in 1..newest
    BY <1>7, TabIs
  <2>4. Reading(tab)'
    BY <1>1, <2>1, <2>2, <2>3, MarkedReads, ReadingStays
  <2>5. u \in Tabs /\ u.of = tab.of
    BY <2>2 DEF Marked
  <2>6. tab.of <= m
    BY <1>2, <1>3, <2>3
  <2>7. (tab \in Tabs)' /\ tab'.of <= newest'
    BY <1>3, <2>1, <2>5, <2>6 DEF Tabs
  <2>8. tab'.moved /\ tab'.at # "stopped"
    BY <2>1, <2>2, <2>5 DEF Tabs, Stages, Lists, MomentLists, RecordLists
  <2>9. /\ ~split' => ("catalog" \in changed' <=> "holdings" \in changed')
        /\ StopsOnlyForChange'
    BY <1>1, <2>8 DEF ExportInv, StopsOnlyForChange
  <2> QED
    BY <1>4, <2>4, <2>7, <2>8, <2>9 DEF ExportInv
<1> QED
  BY <1>5, <1>6, <1>7, TabIs

LEMMA RetireStep ==
  ASSUME ExportInv, NEW v \in serving, Retire(v)
  PROVE  ExportInv'
<1>1. /\ serving' = serving \ {v} /\ tab' = tab /\ changed' = changed /\ split' = split
      /\ newest' = newest
  BY DEF Retire
<1>2. newest \in 1..MaxVersion /\ serving \in SUBSET (1..newest) /\ newest \in Nat /\ MaxVersion \in Nat
  BY TabIs DEF ExportInv
<1>3. newest \in newest..MaxVersion
  BY <1>2
<1> QED
  BY <1>1, <1>2, <1>3, TabStays

LEMMA ExportStarts == ExportInit => ExportInv
<1> SUFFICES ASSUME ExportInit PROVE ExportInv
  OBVIOUS
<1>1. /\ serving = {1} /\ newest = 1 /\ tab = NoExport
      /\ ~split => ("catalog" \in changed <=> "holdings" \in changed)
  BY DEF ExportInit
<1>2. newest \in 1..MaxVersion /\ serving \in SUBSET (1..newest)
  BY <1>1, ExportAssumption
<1>3. tab.at = "idle" /\ tab \in NoTabs
  BY <1>1 DEF NoExport, NoTabs
<1>4. ~Running /\ StopsOnlyForChange
  BY <1>3 DEF Running, StopsOnlyForChange
<1> QED
  BY <1>1, <1>2, <1>3, <1>4 DEF ExportInv

LEMMA ExportKeeps == ExportInv /\ [ExportNext]_exportVars => ExportInv'
<1> SUFFICES ASSUME ExportInv, [ExportNext]_exportVars PROVE ExportInv'
  OBVIOUS
<1>1. CASE Start
  BY <1>1, StartStep
<1>2. CASE Proceed
  BY <1>2, ProceedStep
<1>3. CASE TooBusy
  BY <1>3, BusyStep
<1>4. ASSUME NEW w \in 1..newest,
             ReadManifest(w) \/ ReadListPage(w) \/ ReadMemberships(w) \/ ReadProfiles(w)
               \/ ReadContents(w) \/ ReadDrops(w) \/ Unfit(w) \/ Refused(w)
      PROVE  ExportInv'
  BY <1>4, ManifestStep, ListStep, MembershipsStep, ProfilesStep, ContentsStep, DropsStep,
     UnfitStep, RefusedStep
<1>5. CASE GiveUp
  <2>1. Running /\ tab' = Stopped("cancelled") /\ Rest
    BY <1>5 DEF GiveUp, Rest
  <2> QED
    BY <2>1, ItStops
<1>6. CASE Deploy
  BY <1>6, DeployStep
<1>7. ASSUME NEW v \in serving, Retire(v) PROVE ExportInv'
  BY <1>7, RetireStep
<1>8. CASE UNCHANGED exportVars
  <2>1. /\ tab' = tab /\ changed' = changed /\ split' = split /\ newest' = newest
        /\ serving' = serving
    BY <1>8 DEF exportVars
  <2>2. newest \in 1..MaxVersion /\ serving \in SUBSET (1..newest) /\ newest \in Nat /\ MaxVersion \in Nat
    BY TabIs DEF ExportInv
  <2>3. newest \in newest..MaxVersion
    BY <2>2
  <2> QED
    BY <2>1, <2>2, <2>3, TabStays
<1> QED
  BY <1>1, <1>2, <1>3, <1>4, <1>5, <1>6, <1>7, <1>8 DEF ExportNext, TabStep

\* At every step of an export, whatever versions of the worker and caches answer:
\* what the tab has is a beginning of the manifest's releases, and a tab that saw
\* no roll-out was answered by those releases only (collectPersonalArchive).
THEOREM ArchiveInvariance == ExportSpec => []ExportInv
BY ExportStarts, ExportKeeps, PTL DEF ExportSpec

LEMMA DoneIsWhole ==
  ASSUME ExportInv, tab.at = "done"
  PROVE  ArchivesAreWhole
<1> DEFINE of == tab.of
           drops == PublicDrops[Edition(of, "catalog")]
           cards == HeldDrops(tab) \cap (PrivateCards[Edition(of, "collections")] \ drops)
<1>1. tab \in Tabs /\ PlainRead(tab) /\ RecordsRead(tab) /\ ReferencesRead(tab) /\ DetailsRead(tab)
  <2>1. tab.at \in Stages
    BY DEF Stages
  <2> QED
    BY <2>1, TabIs DEF Reading
<1>2. ASSUME NEW l \in Lists
      PROVE  tab.got[l] = {k \in Keys[l][Edition(of, SourceOf(l))] :
                            l \in RecordLists => CollectionOf(k) \in tab.got["owned"]}
  <2>1. tab.read = tab.got["owned"]
    BY <1>1 DEF ReferencesRead
  <2>2. CASE l \in RecordLists
    <3>1. SourceOf(l) = "collections" /\ l # "done"
      BY <2>2 DEF SourceOf, RecordLists, MomentLists
    <3> QED
      BY <1>1, <2>1, <2>2, <3>1 DEF RecordsRead
  <2>3. CASE l \notin RecordLists
    <3>1. l \in Plain /\ l # "done" /\ Unread("done") = {}
      BY <2>3 DEF Plain, Unread, Lists, MomentLists, RecordLists
    <3>2. tab.got[l] = RowsOf(of, l, 0)
      BY <1>1, <3>1 DEF PlainRead
    <3> QED
      BY <2>3, <3>2 DEF RowsOf
  <2> QED
    BY <2>2, <2>3
<1>3. tab.members = MembershipsOf(of, HeldDrops(tab)) /\ tab.profiles = Needed(tab)
  BY <1>1 DEF ReferencesRead, LastStages
<1>4. \A p \in tab.known : p[1] \in Known(tab)
  BY DEF Known
<1>5. \A d \in Known(tab) : \E p \in tab.known : p[1] = d
  BY DEF Known
<1>6. Known(tab) \cup tab.gone = Referenced(tab) /\ Known(tab) \cap tab.gone = {}
  BY <1>1, <1>5 DEF DetailsRead
<1>7. {p[1] : p \in {q \in tab.known : q[2] = "public"}} = Referenced(tab) \cap drops
  <2>1. \A p \in tab.known : p[2] = "public" => p[1] \in Referenced(tab) \cap drops
    BY <1>1, <1>4, <1>6 DEF DetailsRead, Public
  <2>2. ASSUME NEW d \in Referenced(tab) \cap drops
        PROVE  \E p \in tab.known : p[1] = d /\ p[2] = "public"
    <3>1. d \notin tab.gone
      BY <1>1 DEF DetailsRead, Public
    <3>2. PICK p \in tab.known : p[1] = d
      BY <1>5, <1>6, <3>1
    <3> QED
      BY <1>1, <3>2 DEF DetailsRead, Public
  <2> QED
    BY <2>1, <2>2
<1>8. {p[1] : p \in {q \in tab.known : q[2] = "private"}} = cards
  <2>1. \A p \in tab.known : p[2] = "private" => p[1] \in cards
    BY <1>1 DEF DetailsRead, Cards
  <2>2. ASSUME NEW d \in cards
        PROVE  \E p \in tab.known : p[1] = d /\ p[2] = "private"
    <3>1. d \notin tab.gone /\ d \in HeldDrops(tab)
      BY <1>1 DEF DetailsRead, Cards
    <3>2. d \in Known(tab)
      BY <1>1, <3>1 DEF DetailsRead
    <3>3. PICK p \in tab.known : p[1] = d
      BY <1>5, <3>2
    <3> QED
      BY <1>1, <3>1, <3>3 DEF DetailsRead, Cards
  <2> QED
    BY <2>1, <2>2
<1>9. Cardinality(Known(tab)) = Cardinality(tab.known)
  <2> DEFINE f == [p \in tab.known |-> p[1]]
             K == Known(tab)
             S == tab.known
  <2>1. IsFiniteSet(S) /\ \A p, q \in S : p[1] = q[1] => p = q
    BY <1>1 DEF DetailsRead
  <2>2. f \in [S -> K] /\ \A d \in K : \E p \in S : f[p] = d
    BY <1>4, <1>5
  <2>3. \A p, q \in S : f[p] = f[q] => p = q
    BY <2>1
  <2> HIDE DEF f, K, S
  <2>4. f \in Surjection(S, K)
    BY <2>2 DEF Surjection
  <2>5. f \in Injection(S, K)
    <3>1. f \in [S -> K] /\ DOMAIN f = S
      BY <2>2
    <3> QED
      BY <2>3, <3>1 DEF Injection, IsInjective
  <2>6. Cardinality(K) = Cardinality(S)
    BY <2>1, <2>4, <2>5, FS_Surjection
  <2> QED
    BY <2>6 DEF K, S
<1> QED
  BY <1>2, <1>3, <1>6, <1>7, <1>8, <1>9 DEF ArchivesAreWhole

\* A finished archive is whole and of the releases of its manifest; and with one
\* snapshot for catalog and Holdings an export only stops for a change.
THEOREM ArchivesStayRight == ExportSpec => []ArchivesAreRight
<1>1. ExportInv => ArchivesAreRight
  <2> SUFFICES ASSUME ExportInv PROVE ArchivesAreWhole /\ (~split => StopsOnlyForChange)
    BY DEF ArchivesAreRight
  <2>1. tab.at # "done" => ArchivesAreWhole
    BY DEF ArchivesAreWhole
  <2>2. ~split => StopsOnlyForChange
    BY DEF ExportInv
  <2> QED
    BY <2>1, <2>2, DoneIsWhole
<1> QED
  BY <1>1, ArchiveInvariance, PTL

=============================================================================
