--------------------------- MODULE HoldingsArtwork ---------------------------
(***************************************************************************)
(* The tool that archives the artwork of the Drops a Holdings snapshot      *)
(* refers to (tools/compass-holdings/artwork.mjs). Captures download what    *)
(* nobody has yet, put it into R2 and append a record to one checkpoint; a   *)
(* review lists the Drops whose sources are gone for good; finalize makes a  *)
(* release of the rest and its D1 shards; load writes them to D1 and reads   *)
(* them back; the backup of the snapshot takes what was read back.           *)
(*                                                                           *)
(* Captures may overlap, anything may be killed, and every phase may be run  *)
(* again at any time. Objects in R2 are named by their bytes, so an object   *)
(* is its image here; a release names the record it takes a Drop from, which *)
(* tells image and time. A shard holds one row, all releases have one id.    *)
(***************************************************************************)
EXTENDS Naturals, FiniteSets, SequencesExt, Functions

CONSTANTS
    Carried,      \* Drops whose artwork a seed release or the Collections have
    Wanted,       \* Drops whose artwork must be artReport
    Originals,    \* images a source may have
    Candidates,   \* approved sources of a Drop, asked in turn
    Capturers,    \* captures that may overlap
    MaxRecords,   \* bound on the checkpoint
    MaxReleases   \* bound on the releases written by finalize

ASSUME ArtworkAssumption ==
    /\ Carried \union Wanted \subseteq Nat /\ Carried \cap Wanted = {} /\ Wanted # {}
    /\ Candidates \in Nat \ {0} /\ {MaxRecords, MaxReleases} \subseteq Nat
    /\ IsFiniteSet(Carried \union Wanted)
    /\ Originals # {} /\ "none" \notin Originals

VARIABLES
    originals,    \* images captures have in R2, read back after the upload
    checkpoint,   \* capture-checkpoint.ndjson: its records
    legible,      \* and what else there is to it
    artCapture,   \* the running captures
    artReport,    \* capture-report.json
    review,       \* terminal-unavailable.json
    release,      \* the coverage release
    shardFiles,   \* the SQL files, by their numbers
    d1Report,     \* d1-artwork/report.json
    finalizer,    \* finalize: the shard it is at, 0 when it does not run
    artLoader,    \* load: the shard it is at, and the files it has read
    artworkRows,  \* holding_drop_artwork
    readBack,     \* d1-artwork/remote-report.json
    backedUp      \* the release in the last private backup

artCaptureVars == <<originals, checkpoint, legible, artCapture>>
reportVars == <<artReport, review>>
releaseVars == <<release, shardFiles, d1Report, finalizer>>
serveVars == <<artLoader, artworkRows, readBack, backedUp>>
artworkVars == <<artCaptureVars, reportVars, releaseVars, serveVars>>

HeldDrops == Carried \union Wanted
CarriedRecord == 0

(* What a source without an image says: it is gone (empty, unsupported, 401, *)
(* 403, 404, 410), it has another error, or it says nothing (a timeout).     *)
Answers == {"gone", "refused", "silent"}

(* The attempts of a capture that failed. Silence ends it, other answers lead *)
(* to the next source; R2 that fails after a download leaves no attempts.    *)
Attempts ==
    {<<>>} \union
    {a \in BoundedSeq(Answers, Candidates) \ {<<>>} :
        /\ \A i \in 1..(Len(a) - 1) : a[i] # "silent"
        /\ a[Len(a)] = "silent" \/ Len(a) = Candidates}

CaptureRecords ==
    [drop : Wanted, image : Originals, attempts : {<<>>}]
        \union [drop : Wanted, image : {"none"}, attempts : Attempts]

(* Artifacts are known by numbers instead of digests: the checkpoint, which   *)
(* is only appended to, by its length, releases by the order they are made.  *)
NoCaptureReport == [length |-> 0, completed |-> 0, failed |-> 0]
NoReview == [length |-> 0, current |-> FALSE, rows |-> {}]
NoRelease == [made |-> 0, objects |-> <<>>]
NoCapture == [at |-> "idle", todo |-> {}, seen |-> [d \in Wanted |-> "none"]]
NoLoad == [at |-> 0, report |-> NoRelease, release |-> NoRelease]

ArtworkInit ==
    /\ originals = {}
    /\ checkpoint = <<>> /\ legible = "absent"
    /\ artCapture = [c \in Capturers |-> NoCapture]
    /\ artReport = NoCaptureReport /\ review = NoReview
    /\ release = NoRelease /\ shardFiles = <<>> /\ d1Report = NoRelease
    /\ finalizer = 0 /\ artLoader = NoLoad
    /\ artworkRows = <<>> /\ readBack = NoRelease /\ backedUp = NoRelease

-----------------------------------------------------------------------------
(* The checkpoint. The last record of a Drop counts.                         *)

Latest(d) == SelectLastInSeq(checkpoint, LAMBDA r : r.drop = d)
Outcome(r) == IF r.image = "none" THEN "failed" ELSE "stored"
Standing(d) == IF Latest(d) = 0 THEN "none" ELSE Outcome(checkpoint[Latest(d)])
Unstored == {d \in Wanted : Standing(d) = "failed"}

\* Mistake: any error of the sources is taken for their last word.
TerminalAnyError(attempts) ==
    Len(attempts) = Candidates /\ \A i \in 1..Candidates : attempts[i] # "silent"

(* Every approved source has been asked, and none of them has it any more.   *)
Terminal(attempts) ==
    Len(attempts) = Candidates /\ \A i \in 1..Candidates : attempts[i] = "gone"

AllTerminal(drops) == \A d \in drops : Terminal(checkpoint[Latest(d)].attempts)

-----------------------------------------------------------------------------
(* capture.                                                                  *)

(* The checkpoint is read; the Drops without a record and those that failed   *)
(* are taken.                                                                *)
StartCapture(c) ==
    /\ artCapture[c].at = "idle" /\ legible # "broken"
    /\ artCapture' = [artCapture EXCEPT ![c] =
          [at |-> IF legible = "absent" THEN "header" ELSE "busy",
           todo |-> {d \in Wanted : Standing(d) # "stored"},
           seen |-> [d \in Wanted |-> Standing(d)]]]
    /\ UNCHANGED <<originals, checkpoint, legible, reportVars, releaseVars, serveVars>>

(* A second header makes the checkpoint unreadable.                          *)
WriteHeader(c) ==
    /\ artCapture[c].at = "header"
    /\ legible' = IF legible = "absent" THEN "readable" ELSE "broken"
    /\ artCapture' = [artCapture EXCEPT ![c].at = "busy"]
    /\ UNCHANGED <<originals, checkpoint, reportVars, releaseVars, serveVars>>

(* One of the Drops a capture is at comes to its record, which follows the    *)
(* upload and its readback.                                                  *)
CaptureOne(c, r) ==
    /\ artCapture[c].at = "busy" /\ r.drop \in artCapture[c].todo
    /\ Len(checkpoint) < MaxRecords
    /\ originals' = originals \union ({r.image} \ {"none"})
    /\ checkpoint' = Append(checkpoint, r)
    /\ artCapture' = [artCapture EXCEPT ![c].todo = @ \ {r.drop}, ![c].seen[r.drop] = Outcome(r)]
    /\ UNCHANGED <<legible, reportVars, releaseVars, serveVars>>

(* The report counts what this capture knows and names the checkpoint as it   *)
(* is by now.                                                                *)
EndCapture(c) ==
    LET Seen(outcome) == Cardinality({d \in Wanted : artCapture[c].seen[d] = outcome}) IN
    /\ artCapture[c].at = "busy" /\ artCapture[c].todo = {}
    /\ artReport' = [length |-> Len(checkpoint), completed |-> Seen("stored"),
                    failed |-> Seen("failed")]
    /\ review' = [review EXCEPT !.current = FALSE]
    /\ artCapture' = [artCapture EXCEPT ![c] = NoCapture]
    /\ UNCHANGED <<originals, checkpoint, legible, releaseVars, serveVars>>

(* A capture is killed, perhaps in the middle of a line.                     *)
KillCapture(c) ==
    /\ artCapture[c].at # "idle"
    /\ artCapture' = [artCapture EXCEPT ![c] = NoCapture]
    /\ legible' \in {legible} \union (IF artCapture[c].todo = {} THEN {} ELSE {"broken"})
    /\ UNCHANGED <<originals, checkpoint, reportVars, releaseVars, serveVars>>

-----------------------------------------------------------------------------
(* review-unavailable and finalize.                                          *)

CaptureComplete == artReport.completed = Cardinality(Wanted) /\ artReport.failed = 0

(* The counts of the report are those of the Drops it leaves unavailable.    *)
Isolates(drops) ==
    /\ artReport.failed = Cardinality(drops)
    /\ artReport.completed + Cardinality(drops) = Cardinality(Wanted)

ReviewUnavailable ==
    /\ artReport # NoCaptureReport /\ legible = "readable"
    /\ artReport.length = Len(checkpoint)
    /\ AllTerminal(Unstored) /\ Isolates(Unstored)
    /\ review' = [length |-> Len(checkpoint), current |-> TRUE, rows |-> Unstored]
    /\ UNCHANGED <<artCaptureVars, artReport, releaseVars, serveVars>>

(* The review is of this checkpoint and this report, and says what they say.  *)
ReviewHolds ==
    /\ review.current /\ review.length = Len(checkpoint)
    /\ review.rows \subseteq Unstored /\ AllTerminal(review.rows) /\ Isolates(review.rows)

Unavailable == IF CaptureComplete THEN {} ELSE review.rows

(* finalize checks everything and replaces the release file.                 *)
FinalizeArtwork ==
    LET covered == Wanted \ Unavailable IN
    /\ finalizer = 0 /\ release.made < MaxReleases
    /\ artReport # NoCaptureReport /\ legible = "readable"
    /\ CaptureComplete \/ ReviewHolds
    /\ artReport.completed + Cardinality(Unavailable) = Cardinality(Wanted)
    /\ \A d \in covered : Standing(d) = "stored"
    /\ release' =
         [made |-> release.made + 1,
          objects |-> [d \in Carried \union covered |->
                         IF d \in Carried THEN CarriedRecord ELSE Latest(d)]]
    /\ finalizer' = 1
    /\ UNCHANGED <<artCaptureVars, reportVars, shardFiles, d1Report, serveVars>>

ArtRowCount(rel) == Cardinality(DOMAIN rel.objects)
ShardRow(rel, i) ==
    LET d == CHOOSE d \in DOMAIN rel.objects :
                Cardinality({e \in DOMAIN rel.objects : e < d}) = i - 1
    IN  [drop |-> d, record |-> rel.objects[d]]

(* A shard that is there must be the same; finalize stops at one that is not. *)
WriteShard ==
    /\ finalizer \in 1..ArtRowCount(release)
    /\ IF finalizer <= Len(shardFiles)
       THEN /\ finalizer' = IF shardFiles[finalizer] = ShardRow(release, finalizer)
                            THEN finalizer + 1 ELSE 0
            /\ UNCHANGED shardFiles
       ELSE /\ shardFiles' = Append(shardFiles, ShardRow(release, finalizer))
            /\ finalizer' = finalizer + 1
    /\ UNCHANGED <<artCaptureVars, reportVars, release, d1Report, serveVars>>

WriteD1Report ==
    /\ finalizer = ArtRowCount(release) + 1
    /\ d1Report' = release
    /\ finalizer' = 0
    /\ UNCHANGED <<artCaptureVars, reportVars, release, shardFiles, serveVars>>

KillFinalize ==
    /\ finalizer # 0 /\ finalizer' = 0
    /\ UNCHANGED <<artCaptureVars, reportVars, release, shardFiles, d1Report, serveVars>>

-----------------------------------------------------------------------------
(* load-d1 and the private backup.                                           *)

(* The report and the release are read; they must agree on the row count.     *)
StartLoad ==
    /\ artLoader.at = 0 /\ d1Report # NoRelease
    /\ ArtRowCount(release) = ArtRowCount(d1Report)
    /\ artLoader' = [at |-> 1, report |-> d1Report, release |-> release]
    /\ UNCHANGED <<artCaptureVars, reportVars, releaseVars, artworkRows, readBack, backedUp>>

(* INSERT OR IGNORE. *)
WithRow(row) ==
    [d \in DOMAIN artworkRows \union {row.drop} |->
        IF d \in DOMAIN artworkRows THEN artworkRows[d] ELSE row.record]

LoadShard ==
    /\ artLoader.at \in 1..ArtRowCount(artLoader.report)
    /\ artworkRows' = WithRow(shardFiles[artLoader.at])
    /\ artLoader' = [artLoader EXCEPT !.at = @ + 1]
    /\ UNCHANGED <<artCaptureVars, reportVars, releaseVars, readBack, backedUp>>

(* All rows are read and compared with the release; the proof names the       *)
(* release of the report.                                                    *)
ReadRows ==
    /\ artLoader.at = ArtRowCount(artLoader.report) + 1
    /\ readBack' = IF artworkRows = artLoader.release.objects THEN artLoader.report
                   ELSE readBack
    /\ artLoader' = NoLoad
    /\ UNCHANGED <<artCaptureVars, reportVars, releaseVars, artworkRows, backedUp>>

KillLoad ==
    /\ artLoader.at # 0 /\ artLoader' = NoLoad
    /\ UNCHANGED <<artCaptureVars, reportVars, releaseVars, artworkRows, readBack, backedUp>>

\* Mistake: the release file is not compared with the report.
ProvenByReport == readBack.made = d1Report.made

Proven == release.made = d1Report.made /\ readBack.made = d1Report.made

(* upload-backup, once there is a report.                                    *)
BackUp ==
    /\ d1Report # NoRelease /\ readBack # NoRelease /\ Proven
    /\ ArtRowCount(release) = ArtRowCount(d1Report) /\ ArtRowCount(readBack) = ArtRowCount(d1Report)
    /\ backedUp' = release
    /\ UNCHANGED <<artCaptureVars, reportVars, releaseVars, artLoader, artworkRows, readBack>>

ArtworkNext ==
    \/ \E c \in Capturers :
          \/ StartCapture(c) \/ WriteHeader(c) \/ EndCapture(c) \/ KillCapture(c)
          \/ \E r \in CaptureRecords : CaptureOne(c, r)
    \/ ReviewUnavailable
    \/ FinalizeArtwork \/ WriteShard \/ WriteD1Report \/ KillFinalize
    \/ StartLoad \/ LoadShard \/ ReadRows \/ KillLoad
    \/ BackUp

ArtworkSpec == ArtworkInit /\ [][ArtworkNext]_artworkVars

-----------------------------------------------------------------------------
Releases ==
    [made : 0..MaxReleases,
     objects : UNION {[drops -> 0..MaxRecords] : drops \in SUBSET HeldDrops}]

ArtworkTypeOK ==
    /\ originals \subseteq Originals
    /\ checkpoint \in Seq(CaptureRecords) /\ legible \in {"absent", "readable", "broken"}
    /\ artCapture \in [Capturers ->
            [at : {"idle", "header", "busy"}, todo : SUBSET Wanted,
             seen : [Wanted -> {"none", "stored", "failed"}]]]
    /\ {artReport.completed, artReport.failed} \subseteq 0..Cardinality(Wanted)
    /\ review.rows \subseteq Wanted
    /\ {release, d1Report, readBack, backedUp} \subseteq Releases
    /\ shardFiles \in Seq([drop : HeldDrops, record : 0..MaxRecords])

(* What a release or a row of D1 names is in R2.                             *)
NamedIsStored ==
    \A objects \in {release.objects, artworkRows, backedUp.objects} :
        \A d \in DOMAIN objects :
            \/ objects[d] = CarriedRecord
            \/ checkpoint[objects[d]].drop = d /\ checkpoint[objects[d]].image \in originals

(* A release, and a backup, has every Drop but those whose sources have all   *)
(* been found gone, whatever captures overlapped or were killed.             *)
LeftOutForGood ==
    \A rel \in {release, backedUp} \ {NoRelease} : \A d \in HeldDrops \ DOMAIN rel.objects :
        \E i \in DOMAIN checkpoint :
            checkpoint[i].drop = d /\ checkpoint[i].attempts = [k \in 1..Candidates |-> "gone"]

(* What is backed up as the coverage is what D1 serves, though the files it   *)
(* is taken from are replaced one by one.                                    *)
BackedUpIsServed ==
    \A d \in DOMAIN backedUp.objects :
        d \in DOMAIN artworkRows /\ artworkRows[d] = backedUp.objects[d]

(* The coverage of the artwork is what it is said to be.                     *)
ReleasesAreRight ==
    ArtworkTypeOK /\ NamedIsStored /\ LeftOutForGood /\ BackedUpIsServed
=============================================================================
