------------------------------- MODULE MCTools -------------------------------
(***************************************************************************)
(* The tools an operator runs beside the worker. They meet in files that    *)
(* each writes once and the next one checks, so each is explored by itself: *)
(* the export of Compass tables, the capture of its POAPs, the upload of a  *)
(* large object, the recovery of media, the evidence a build takes from the *)
(* media journals while captures and recoveries go on, the load of a build  *)
(* into D1, and the archive of artwork.                                     *)
(***************************************************************************)
EXTENDS SnapshotExport, CompassCapture, MultipartUpload, MomentsMedia, SnapshotLoaders,
        HoldingsArtwork

CONSTANT SecondCapture  \* the capture of artwork that may overlap the first

VARIABLE part

toolsVars == <<part, exportVars, compassVars, uploadVars, mediaVars, loadVars, artworkVars>>

ToolsInit ==
    /\ part \in {"export", "compass", "upload", "recovery", "evidence", "load",
                "artwork"}
    /\ ExportInit /\ CompassInit /\ UploadInit /\ MediaInit /\ LoadInit /\ ArtworkInit
    /\ part # "load" => kind = "compass"
    /\ part # "export" => entity = "moments" /\ source = Keys

snapshotVars == <<exportVars, compassVars>>
objectVars == <<uploadVars, mediaVars, loadVars, artworkVars>>

(* The POAPs between the first and the last are of one drop.                *)
DropIds == [p \in Poaps |-> IF p = Min(Poaps) THEN "unlisted"
                            ELSE IF p = Max(Poaps) THEN "last" ELSE "shared"]

Exporting == part = "export" /\ ExportNext /\ UNCHANGED <<part, compassVars, objectVars>>
Capturing == part = "compass" /\ CompassNext /\ UNCHANGED <<part, exportVars, objectVars>>
Upload == part = "upload" /\ UploadNext
          /\ UNCHANGED <<part, snapshotVars, mediaVars, loadVars, artworkVars>>

(* Two databases take the most steps: something goes wrong with them once.   *)
Load ==
    /\ part = "load" /\ LoadNext
    /\ kind = "archive" => loadFaults' + strays' <= 1
    /\ UNCHANGED <<part, snapshotVars, uploadVars, mediaVars, artworkVars>>

(* Captures and recoveries write their journals, without the evidence made   *)
(* of them.                                                                  *)
Recovery ==
    /\ part = "recovery"
    /\ UNCHANGED <<part, snapshotVars, uploadVars, loadVars, artworkVars>>
    /\ UNCHANGED <<evidenceVars, verifier, builder, capturer>>
    /\ MediaNext

(* All the tools, with fewer outcomes of a capture and one recovered row.     *)
EvidenceOutcomes(m) ==
    IF m \in Eligible THEN {"unattempted", "public_stored", "failed"}
    ELSE {"unattempted", "private_stored", "source_missing"}

Evidence ==
    /\ part = "evidence" /\ MediaNext
    /\ recoveries' <= 1 /\ \A m \in Media : captured'[m] \in EvidenceOutcomes(m)
    /\ UNCHANGED <<part, snapshotVars, uploadVars, loadVars, artworkVars>>

(* Artwork that some source still refuses, or that every source has lost.     *)
ArtworkOutcomes == {<<>>, <<"refused", "gone">>, <<"gone", "gone">>}

(* Making, loading and backing up a release reads what captures have written, *)
(* and captures read nothing of it: a capture only overlaps it as the second  *)
(* one, and does not step between its steps. Once there is a release, no      *)
(* second capture starts and no checkpoint is broken.                        *)
Artwork ==
    /\ part = "artwork" /\ ArtworkNext
    /\ checkpoint' # checkpoint =>
          LET r == Last(checkpoint') IN
          r.attempts \in ArtworkOutcomes /\ (r.image = "none" => r.attempts # <<>>)
    /\ <<releaseVars, serveVars>>' # <<releaseVars, serveVars>> =>
          \A c \in Capturers \ {SecondCapture} : artCapture[c].at = "idle"
    /\ <<artCaptureVars, reportVars>>' # <<artCaptureVars, reportVars>> =>
          finalizer = 0 /\ artLoader.at = 0 /\ legible # "broken"
    /\ serveVars' # serveVars => finalizer = 0
    /\ releaseVars' # releaseVars => artLoader.at = 0
    /\ legible' = "broken" => release = NoRelease
    /\ release # NoRelease /\ artCapture[SecondCapture] = NoCapture =>
          artCapture'[SecondCapture] = NoCapture
    /\ UNCHANGED <<part, snapshotVars, uploadVars, mediaVars, loadVars>>

ToolsNext == Exporting \/ Capturing \/ Upload \/ Recovery \/ Evidence \/ Load \/ Artwork

(* Somebody runs the tools again until they are through, but does not resume *)
(* what is finished.                                                         *)
ToolsSpec ==
    /\ ToolsInit /\ [][ToolsNext]_toolsVars
    /\ WF_exportVars(part = "export" /\ ExportRunStep /\ (Runs("idle") => ~sealed))
    /\ WF_exportVars(part = "export" /\ Verify)
    /\ WF_compassVars(part = "compass" /\ CaptureStep /\ ~(running = Rest /\ Matches))
    /\ \A u \in Uploaders : WF_uploadVars(part = "upload" /\ UploadStep(u))
    /\ \A l \in Loaders : WF_loadVars(part = "load" /\ LoaderStep(l))

ExportsEnd == part = "export" => ExportEnds
CapturesEnd == part = "compass" => CaptureEnds
UploadsEnd == part = "upload" => UploadEnds
LoadsEnd == part = "load" => LoadEnds

(* Tools that are run again end: exports verified and captures published,    *)
(* unless Compass changes under them in a way they refuse; uploads with the  *)
(* object stored, or, where there is one, an HLS copy instead; loads with a  *)
(* target that serves or must be discarded.                                  *)
ToolsEnd == ExportsEnd /\ CapturesEnd /\ UploadsEnd /\ LoadsEnd
=============================================================================
