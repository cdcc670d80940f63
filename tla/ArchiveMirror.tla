----------------------------- MODULE ArchiveMirror -----------------------------
(***************************************************************************)
(* The mirror of archived artwork (src/worker/archive-media-mirror.ts): the *)
(* minute cron reads a cursor object from R2, copies the next page of       *)
(* objects from the release origin, and writes the cursor back without a    *)
(* condition. Runs overlap when a page takes longer than a minute.          *)
(***************************************************************************)
EXTENDS Naturals, FiniteSets

CONSTANTS
    Drops,           \* drop_id of each row of holding_drop_artwork
    MirrorRuns,
    PageSize,
    MaxMirrorFaults  \* failed copies and ended runs in a behaviour

ASSUME MirrorConstants ==
    /\ Drops \subseteq Nat \ {0} /\ IsFiniteSet(Drops)
    /\ PageSize \in Nat \ {0} /\ MaxMirrorFaults \in Nat

VARIABLES
    mirrored,     \* objects that are whole and labelled in the mirror bucket
    progress,     \* the cursor object
    mirrorRun,
    mirrorFaults

mirrorVars == <<mirrored, progress, mirrorRun, mirrorFaults>>

Cursors == {0} \cup Drops

MirrorTypeOK ==
    /\ mirrored \subseteq Drops
    /\ progress \in [after : Cursors, complete : BOOLEAN]
    /\ mirrorRun \in [MirrorRuns -> [phase : {"idle", "page", "copy", "save"}, after : Cursors,
                                     page : SUBSET Drops, left : SUBSET Drops]]
    /\ mirrorFaults \in 0..MaxMirrorFaults

NoMirrorRun == [phase |-> "idle", after |-> 0, page |-> {}, left |-> {}]

MirrorInit ==
    /\ mirrored \in SUBSET Drops
    /\ progress = [after |-> 0, complete |-> FALSE]
    /\ mirrorRun = [r \in MirrorRuns |-> NoMirrorRun]
    /\ mirrorFaults = 0

-----------------------------------------------------------------------------
(* The first PageSize rows after a cursor, in the order of drop_id. *)
Page(after) ==
    {d \in Drops : d > after /\ Cardinality({b \in Drops : after < b /\ b < d}) < PageSize}

\* Mistake: the cursor stays where it was.
LastOfSame(page, after) == after

LastOf(page, after) ==
    IF page = {} THEN after ELSE CHOOSE d \in page : \A b \in page : b <= d

(* The cursor object is read; a mirror that is complete does nothing. *)
ReadProgress(r) ==
    /\ mirrorRun[r].phase = "idle"
    /\ ~progress.complete
    /\ mirrorRun' = [mirrorRun EXCEPT ![r] = [NoMirrorRun EXCEPT !.phase = "page",
                                                               !.after = progress.after]]
    /\ UNCHANGED <<mirrored, progress, mirrorFaults>>

ReadPage(r) ==
    LET page == Page(mirrorRun[r].after) IN
    /\ mirrorRun[r].phase = "page"
    /\ mirrorRun' = [mirrorRun EXCEPT ![r].phase = "copy", ![r].page = page, ![r].left = page]
    /\ UNCHANGED <<mirrored, progress, mirrorFaults>>

(* One object, in any order: six workers share a page. An object that is in *)
(* the bucket already is skipped.                                           *)
CopyObject(r, d) ==
    /\ mirrorRun[r].phase = "copy" /\ d \in mirrorRun[r].left
    /\ mirrored' = mirrored \cup {d}
    /\ mirrorRun' = [mirrorRun EXCEPT ![r].left = @ \ {d}]
    /\ UNCHANGED <<progress, mirrorFaults>>

\* Mistake: the cursor passes a page of which an object failed.
AllTried(r) == TRUE

AllCopied(r) == mirrorRun[r].left = {}

PageCopied(r) ==
    /\ mirrorRun[r].phase = "copy" /\ AllCopied(r)
    /\ mirrorRun' = [mirrorRun EXCEPT ![r].phase = "save"]
    /\ UNCHANGED <<mirrored, progress, mirrorFaults>>

SaveProgress(r) ==
    LET run == mirrorRun[r] IN
    /\ run.phase = "save"
    /\ progress' = [after |-> LastOf(run.page, run.after),
                    complete |-> Cardinality(run.page) < PageSize]
    /\ mirrorRun' = [mirrorRun EXCEPT ![r] = NoMirrorRun]
    /\ UNCHANGED <<mirrored, mirrorFaults>>

(* A copy fails, so that the page is not acknowledged, or the run ends. *)
MirrorFails(r) ==
    /\ mirrorFaults < MaxMirrorFaults
    /\ mirrorRun[r].phase # "idle"
    /\ mirrorRun' = [mirrorRun EXCEPT ![r] = NoMirrorRun]
    /\ mirrorFaults' = mirrorFaults + 1
    /\ UNCHANGED <<mirrored, progress>>

MirrorStep(r) ==
    \/ ReadProgress(r) \/ ReadPage(r) \/ PageCopied(r) \/ SaveProgress(r)
    \/ \E d \in Drops : CopyObject(r, d)

MirrorNext == \E r \in MirrorRuns : MirrorStep(r) \/ MirrorFails(r)

MirrorSpec == MirrorInit /\ [][MirrorNext]_mirrorVars

-----------------------------------------------------------------------------
(* What lies behind the cursor is mirrored, whichever run wrote it last.    *)
CursorCoversMirror ==
    /\ MirrorTypeOK
    /\ \A d \in Drops : d <= progress.after => d \in mirrored
    /\ progress.complete => mirrored = Drops

(* Overlapping runs may set the cursor back, but the copy is finished.      *)
MirrorCompletes == <>(progress.complete /\ mirrored = Drops)
=============================================================================
